---------------------------- MODULE Spec2Model ----------------------------
(***************************************************************************)
(* A model of windchime's in-process data transformations.                 *)
(*                                                                         *)
(* src/src/demultiplex.rs: run_demultiplex_combined fans one task per      *)
(* barcode row out over a rayon pool; each task locates its paired FASTQ   *)
(* inputs (find_fastq) and runs demultiplex_fastq_files, the lockstep      *)
(* trim-and-write loop.                                                    *)
(*                                                                         *)
(* Text is modelled as sequences of tokens (one-character strings, or a    *)
(* literal chunk of a format! template), a text file as a sequence of      *)
(* lines.  The FASTQ reader and writer are bio::io::fastq's, modelled by   *)
(* what they do on lines.                                                  *)
(***************************************************************************)
EXTENDS Naturals, Integers, Sequences, FiniteSets, TLC

VARIABLES
    fs,             \* the filesystem: path -> file, for the paths that exist
    barcodes_file,  \* the path given to run_demultiplex_combined
    run,            \* run_demultiplex_combined: [pc, result]
    barcode_lines,  \* its Vec of barcode lines (header skipped)
    task,           \* i -> the state of the closure processing barcode_lines[i]
    pb,             \* the shared progress bar: [pos, len]
    log,            \* stderr: the set of <<row, message kind>> printed
    reread,         \* the records found when the two outputs are read back
    manifest,       \* generate_qiime_manifest: its position and result
    biom,           \* convert_biom_to_tsv: its position, locals and result
    merge           \* merge_asv_taxonomy: its position, locals and result

vars == <<fs, barcodes_file, run, barcode_lines, task, pb, log, reread,
          manifest, biom, merge>>

\* A function that has not been called.
Idle == [pc |-> "idle"]

---------------------------------------------------------------------------
(* Bounds of the model.                                                    *)

\* The longest FASTQ stream (records per input file) of the trim inputs.
MaxRecords == 2
\* The most bases that follow the 4-base spacer in a forward read.
MaxTail == 2
\* The most barcode rows (after the header) in the barcodes file.
MaxRows == 2

---------------------------------------------------------------------------
(* Text helpers.                                                           *)

Min(a, b) == IF a <= b THEN a ELSE b

\* Whitespace that str::trim and str::trim_end remove.
WS == {" ", "\t"}

RECURSIVE TrimStart(_)
TrimStart(s) ==
    IF s # <<>> /\ Head(s) \in WS THEN TrimStart(Tail(s)) ELSE s

RECURSIVE TrimEnd(_)
TrimEnd(s) ==
    IF s # <<>> /\ s[Len(s)] \in WS THEN TrimEnd(SubSeq(s, 1, Len(s) - 1)) ELSE s

Trim(s) == TrimEnd(TrimStart(s))

\* str::split(sep): the pieces between separators; always at least one piece.
RECURSIVE SplitFrom(_, _, _, _)
SplitFrom(s, sep, k, cur) ==
    IF k > Len(s) THEN <<cur>>
    ELSE IF s[k] = sep THEN <<cur>> \o SplitFrom(s, sep, k + 1, <<>>)
    ELSE SplitFrom(s, sep, k + 1, Append(cur, s[k]))

Split(s, sep) == SplitFrom(s, sep, 1, <<>>)

\* The index of the first occurrence of c in s, 0 when there is none.
RECURSIVE IndexOfFrom(_, _, _)
IndexOfFrom(s, c, k) ==
    IF k > Len(s) THEN 0
    ELSE IF s[k] = c THEN k
    ELSE IndexOfFrom(s, c, k + 1)

IndexOf(s, c) == IndexOfFrom(s, c, 1)

EndsWith(s, suffix) ==
    /\ Len(s) >= Len(suffix)
    /\ SubSeq(s, Len(s) - Len(suffix) + 1, Len(s)) = suffix

\* The lines of a tab-separated row.
RECURSIVE JoinTab(_)
JoinTab(fields) ==
    IF Len(fields) = 0 THEN <<>>
    ELSE IF Len(fields) = 1 THEN fields[1]
    ELSE fields[1] \o <<"\t">> \o JoinTab(Tail(fields))

---------------------------------------------------------------------------
(* Paths and the filesystem.                                               *)

OUTPUT_DIR == <<"windchime_out">>

out_path(filename) == OUTPUT_DIR \o <<"/">> \o filename

\* Path::is_file / Path::exists; every entry of fs is a regular file.
is_file(path) == path \in DOMAIN fs

exists(path) == path \in DOMAIN fs

\* A file: enc is how its bytes are encoded ("gz" or "plain"), lines its text
\* once decoded, finished whether a gzip stream has its trailer, creators the
\* tasks that created it during this run (empty for an input file).
File(enc, lines) ==
    [enc |-> enc, lines |-> lines, finished |-> TRUE, creators |-> {}]

find_fastq_plain_first(base_name) ==
    LET gz == base_name \o <<".gz">>
    IN  IF is_file(base_name) THEN <<base_name>>
        ELSE IF is_file(gz) THEN <<gz>>
        ELSE <<>>

\* find_fastq: Some(path) is <<path>>, None is <<>>.
find_fastq(base_name) ==
    LET gz == base_name \o <<".gz">>
    IN  IF is_file(gz) THEN <<gz>>
        ELSE IF is_file(base_name) THEN <<base_name>>
        ELSE <<>>

---------------------------------------------------------------------------
(* FASTQ records, bio::io::fastq's writer and reader.                      *)
(* A record is [id, desc, seq, qual]; desc is an Option: <<>> or <<text>>. *)

Record(id, desc, seq, qual) == [id |-> id, desc |-> desc, seq |-> seq, qual |-> qual]

StartsWith(line, c) == line # <<>> /\ line[1] = c

\* fastq::Writer::write_record: "@id[ desc]", seq, "+", qual.
write_record(rec) ==
    << <<"@">> \o rec.id \o (IF rec.desc = <<>> THEN <<>> ELSE <<" ">> \o rec.desc[1]),
       rec.seq,
       <<"+">>,
       rec.qual >>

\* The sequence lines of a record: every line up to the first that starts
\* with '+' (or the end of the file).  p is the line in the line buffer.
RECURSIVE ReadSeqLines(_, _, _, _)
ReadSeqLines(lines, p, acc, n) ==
    IF p <= Len(lines) /\ ~StartsWith(lines[p], "+")
    THEN ReadSeqLines(lines, p + 1, acc \o TrimEnd(lines[p]), n + 1)
    ELSE [seq |-> acc, p |-> p, n |-> n]

\* As many quality lines as there were sequence lines; a read past the end
\* of the file yields an empty line.
RECURSIVE ReadQualLines(_, _, _, _)
ReadQualLines(lines, p, n, acc) ==
    IF n = 0 THEN acc
    ELSE ReadQualLines(lines, p + 1, n - 1,
                       acc \o (IF p <= Len(lines) THEN TrimEnd(lines[p]) ELSE <<>>))

\* fastq::Reader::read followed by Records::next's test, at line pos:
\* [status |-> "eof"] at the end of the file, "err" for a line that does not
\* start with '@' (MissingAt) or a record with no quality (IncompleteRecord),
\* "ok" with the record and the position after it otherwise.  The lengths of
\* seq and qual are not compared.
fastq_read(lines, pos) ==
    IF pos > Len(lines) THEN [status |-> "eof", pos |-> pos]
    ELSE IF ~StartsWith(lines[pos], "@") THEN [status |-> "err", pos |-> pos]
    ELSE
      LET h  == TrimEnd(Tail(lines[pos]))
          k  == IndexOf(h, " ")
          id == IF k = 0 THEN h ELSE SubSeq(h, 1, k - 1)
          desc == IF k = 0 THEN <<>> ELSE << SubSeq(h, k + 1, Len(h)) >>
          s  == ReadSeqLines(lines, pos + 1, <<>>, 0)
          q  == ReadQualLines(lines, s.p + 1, s.n, <<>>)
          nx == Min(s.p + s.n, Len(lines)) + 1
      IN  IF q = <<>> THEN [status |-> "err", pos |-> pos]
          ELSE [status |-> "ok", pos |-> nx, rec |-> Record(id, desc, s.seq, q)]

\* open_bufread's choice of decoder by suffix, applied to the file's bytes:
\* the decoded lines, or <<"err">> when a ".gz" path holds no gzip stream.
\* Gzip bytes read as plain text are a line that starts with no '@'.
open_bufread(path) ==
    IF EndsWith(path, <<".gz">>)
    THEN IF fs[path].enc = "gz" THEN [ok |-> TRUE, lines |-> fs[path].lines]
         ELSE [ok |-> FALSE, lines |-> <<>>]
    ELSE IF fs[path].enc = "plain" THEN [ok |-> TRUE, lines |-> fs[path].lines]
         ELSE [ok |-> TRUE, lines |-> << <<"\\x1f">> >>]

\* records.next() of the reader on path, at line pos.
records_next(path, pos) ==
    LET r == open_bufread(path)
    IN  IF r.ok THEN fastq_read(r.lines, pos) ELSE [status |-> "err", pos |-> pos]

\* Every record of a file, read to the end or to the first error.
RECURSIVE ReadAllFrom(_, _, _)
ReadAllFrom(path, pos, acc) ==
    LET r == records_next(path, pos)
    IN  IF r.status = "ok" THEN ReadAllFrom(path, r.pos, Append(acc, r.rec))
        ELSE [recs |-> acc, status |-> r.status]

ReadAll(path) ==
    IF exists(path) THEN ReadAllFrom(path, 1, <<>>)
    ELSE [recs |-> <<>>, status |-> "missing"]

\* The lines of a FASTQ file holding recs.
RECURSIVE FastqLines(_)
FastqLines(recs) ==
    IF recs = <<>> THEN <<>> ELSE write_record(Head(recs)) \o FastqLines(Tail(recs))

---------------------------------------------------------------------------
(* demultiplex_fastq_files, one step per filesystem interaction.           *)

\* Results: Ok(()) carries the unit value, Err an error kind.
Unit == <<>>
Ok(v) == [tag |-> "Ok", value |-> v]
Err(kind) == [tag |-> "Err", value |-> kind]
NoResult == [tag |-> "none", value |-> Unit]
Panic == [tag |-> "panic", value |-> Unit]

\* The closure's frame: its position, the arguments of demultiplex_fastq_files
\* (in1, in2, adaptseq, outbase), the two readers' positions, the records
\* handed to each fastq::Writer (still in its buffer until the flush), and
\* the value demultiplex_fastq_files returned.
NewTask ==
    [pc |-> "start", in1 |-> <<>>, in2 |-> <<>>, adaptseq |-> <<>>, outbase |-> <<>>,
     pos1 |-> 1, pos2 |-> 1, out1 |-> <<>>, out2 |-> <<>>, result |-> NoResult]

outfile1(outbase) == out_path(outbase \o <<"_L001_R1_001.fastq", ".gz">>)
outfile2(outbase) == out_path(outbase \o <<"_L001_R2_001.fastq", ".gz">>)

start_idx == 4
end_idx(adaptseq) == start_idx + Len(adaptseq)

\* The test of line 274 (Rust's slice [start_idx..end_idx] is SubSeq from
\* start_idx + 1 to end_idx).
adapter_found(seq1, adaptseq) ==
    /\ Len(seq1) >= end_idx(adaptseq)
    /\ SubSeq(seq1, start_idx + 1, end_idx(adaptseq)) = adaptseq

new_rec1_qual_cut_at_start(rec1, adaptseq) ==
    Record(rec1.id, rec1.desc,
           SubSeq(rec1.seq, end_idx(adaptseq) + 1, Len(rec1.seq)),
           SubSeq(rec1.qual, start_idx + 1, Len(rec1.qual)))

\* Lines 275-277: the record with the first end_idx bytes of seq and qual cut.
new_rec1(rec1, adaptseq) ==
    Record(rec1.id, rec1.desc,
           SubSeq(rec1.seq, end_idx(adaptseq) + 1, Len(rec1.seq)),
           SubSeq(rec1.qual, end_idx(adaptseq) + 1, Len(rec1.qual)))

write_pair_forward_only(t, rec1, rec2) ==
    [t EXCEPT !.out1 = Append(@, rec1)]

\* Lines 279-280: the trimmed forward record goes to out1, the reverse record
\* to out2.
write_pair(t, rec1, rec2) ==
    [t EXCEPT !.out1 = Append(@, rec1), !.out2 = Append(@, rec2)]

\* File::create: a new or truncated file, its gzip stream not yet finished.
Created(f, path, i) ==
    [p \in DOMAIN f \cup {path} |->
        IF p = path
        THEN [enc |-> "gz", lines |-> <<>>, finished |-> FALSE,
              creators |-> (IF path \in DOMAIN f THEN f[path].creators ELSE {}) \cup {i}]
        ELSE f[p]]

Finalized_forward_only(f, t) ==
    [p \in DOMAIN f |->
        IF p = outfile1(t.outbase)
        THEN [f[p] EXCEPT !.lines = FastqLines(t.out1), !.finished = TRUE]
        ELSE IF p = outfile2(t.outbase)
        THEN [f[p] EXCEPT !.lines = FastqLines(t.out2)]
        ELSE f[p]]

\* What reaches the disk when a task's writers are flushed and dropped (at
\* the return, on an early return by `?`, or while a panic unwinds): each
\* handle writes its whole gzip stream from offset 0 and finishes it.
Finalized(f, t) ==
    [p \in DOMAIN f |->
        IF p = outfile1(t.outbase)
        THEN [f[p] EXCEPT !.lines = FastqLines(t.out1), !.finished = TRUE]
        ELSE IF p = outfile2(t.outbase)
        THEN [f[p] EXCEPT !.lines = FastqLines(t.out2), !.finished = TRUE]
        ELSE f[p]]

\* DemuxOpen with the outputs created before the inputs are looked at.
DemuxOpen_create_first(i) ==
    /\ i \in DOMAIN task
    /\ task[i].pc = "demux"
    /\ task' = [task EXCEPT ![i] =
                  IF ~exists(task[i].in1) \/ ~exists(task[i].in2)
                  THEN [@ EXCEPT !.pc = "returned", !.result = Err("NotFound")]
                  ELSE [@ EXCEPT !.pc = "create", !.pos1 = 1, !.pos2 = 1]]
    /\ fs' = Created(Created(fs, outfile1(task[i].outbase), i),
                     outfile2(task[i].outbase), i)
    /\ UNCHANGED <<barcodes_file, run, barcode_lines, pb, log, reread, manifest, biom, merge>>

\* Lines 222-244: both inputs must exist; the readers are opened.
DemuxOpen(i) ==
    /\ i \in DOMAIN task
    /\ task[i].pc = "demux"
    /\ task' = [task EXCEPT ![i] =
                  IF ~exists(task[i].in1) \/ ~exists(task[i].in2)
                  THEN [@ EXCEPT !.pc = "returned", !.result = Err("NotFound")]
                  ELSE [@ EXCEPT !.pc = "create", !.pos1 = 1, !.pos2 = 1]]
    /\ UNCHANGED <<fs, barcodes_file, run, barcode_lines, pb, log, reread, manifest, biom, merge>>

\* Lines 246-260: both output files are created (truncated when present).
DemuxCreate(i) ==
    /\ i \in DOMAIN task
    /\ task[i].pc = "create"
    /\ fs' = Created(Created(fs, outfile1(task[i].outbase), i),
                     outfile2(task[i].outbase), i)
    /\ task' = [task EXCEPT ![i].pc = "loop"]
    /\ UNCHANGED <<barcodes_file, run, barcode_lines, pb, log, reread, manifest, biom, merge>>

\* LoopStep with `continue` in the place of `break` when the reverse stream
\* has ended.
LoopStep_no_break(t) ==
    LET r1 == records_next(t.in1, t.pos1)
        r2 == records_next(t.in2, t.pos2)
    IN  IF r1.status = "eof" THEN [t EXCEPT !.pc = "flush"]
        ELSE IF r1.status = "err"
        THEN [t EXCEPT !.pc = "returned", !.result = Err("Other")]
        ELSE IF r2.status = "eof" THEN [t EXCEPT !.pos1 = r1.pos]
        ELSE IF r2.status = "err"
        THEN [t EXCEPT !.pc = "returned", !.result = Err("Other"), !.pos1 = r1.pos]
        ELSE IF adapter_found(r1.rec.seq, t.adaptseq)
        THEN IF Len(r1.rec.qual) < end_idx(t.adaptseq)
             THEN [t EXCEPT !.pc = "panicked", !.result = Panic,
                            !.pos1 = r1.pos, !.pos2 = r2.pos]
             ELSE write_pair([t EXCEPT !.pos1 = r1.pos, !.pos2 = r2.pos],
                             new_rec1(r1.rec, t.adaptseq), r2.rec)
        ELSE [t EXCEPT !.pos1 = r1.pos, !.pos2 = r2.pos]

\* The task after one iteration of the while loop of lines 263-284, and
\* whether its writers were dropped (the function was left).
LoopStep(t) ==
    LET r1 == records_next(t.in1, t.pos1)
        r2 == records_next(t.in2, t.pos2)
    IN  IF r1.status = "eof" THEN [t EXCEPT !.pc = "flush"]
        ELSE IF r1.status = "err"
        THEN [t EXCEPT !.pc = "returned", !.result = Err("Other")]
        ELSE IF r2.status = "eof" THEN [t EXCEPT !.pc = "flush", !.pos1 = r1.pos]
        ELSE IF r2.status = "err"
        THEN [t EXCEPT !.pc = "returned", !.result = Err("Other"), !.pos1 = r1.pos]
        ELSE IF adapter_found(r1.rec.seq, t.adaptseq)
        THEN IF Len(r1.rec.qual) < end_idx(t.adaptseq)
             \* &qual1[end_idx..] is out of range: the thread panics.
             THEN [t EXCEPT !.pc = "panicked", !.result = Panic,
                            !.pos1 = r1.pos, !.pos2 = r2.pos]
             ELSE write_pair([t EXCEPT !.pos1 = r1.pos, !.pos2 = r2.pos],
                             new_rec1(r1.rec, t.adaptseq), r2.rec)
        ELSE [t EXCEPT !.pos1 = r1.pos, !.pos2 = r2.pos]

LoopIter(i) ==
    /\ i \in DOMAIN task
    /\ task[i].pc = "loop"
    /\ LET t == LoopStep(task[i])
       IN  /\ task' = [task EXCEPT ![i] = t]
           /\ fs' = IF t.pc \in {"returned", "panicked"} THEN Finalized(fs, t) ELSE fs
    /\ UNCHANGED <<barcodes_file, run, barcode_lines, pb, log, reread, manifest, biom, merge>>

\* Lines 286-289: both writers are flushed, then dropped; Ok(()) is returned.
DemuxFlush(i) ==
    /\ i \in DOMAIN task
    /\ task[i].pc = "flush"
    /\ fs' = Finalized(fs, task[i])
    /\ task' = [task EXCEPT ![i].pc = "returned", ![i].result = Ok(Unit)]
    /\ UNCHANGED <<barcodes_file, run, barcode_lines, pb, log, reread, manifest, biom, merge>>

---------------------------------------------------------------------------
(* run_demultiplex_combined.                                               *)

\* Line 81: the row's fields.
row_fields(barcode_line) == Split(Trim(barcode_line), "\t")

sample_outbase_seq2_only(name, seq2) == seq2

\* Line 111: the output base, which is the sample id.
sample_outbase(name, seq2) == name \o <<"_">> \o seq2

\* Lines 79-111 of the closure, up to the call of demultiplex_fastq_files:
\* the frame at the call, or a finished frame and the message printed when
\* the row is rejected (the counter is incremented on each of these paths).
ClosureStart(t, barcode_line) ==
    LET fields == row_fields(barcode_line)
        name == fields[1]
        file_name == fields[2]
        seq2 == fields[6]
        fq_r1_file == find_fastq(file_name \o <<"_R1_001.fastq">>)
        fq_r2_file == find_fastq(file_name \o <<"_R2_001.fastq">>)
    IN  IF Len(fields) # 6
        THEN [t |-> [t EXCEPT !.pc = "done"], msg |-> "Invalid line", inc |-> 1]
        ELSE IF fq_r1_file = <<>>
        THEN [t |-> [t EXCEPT !.pc = "done"], msg |-> "R1 file does not exist", inc |-> 1]
        ELSE IF fq_r2_file = <<>>
        THEN [t |-> [t EXCEPT !.pc = "done"], msg |-> "R2 file does not exist", inc |-> 1]
        ELSE [t |-> [t EXCEPT !.pc = "demux",
                              !.in1 = fq_r1_file[1], !.in2 = fq_r2_file[1],
                              !.adaptseq = seq2,
                              !.outbase = sample_outbase(name, seq2)],
              msg |-> "", inc |-> 0]

\* Lines 41-76: the barcodes file is read, its first line skipped, and the
\* progress bar set up with one unit per line.
RunStart ==
    /\ run.pc = "init"
    /\ IF ~exists(barcodes_file)
       THEN /\ run' = [pc |-> "returned", result |-> Err("NotFound")]
            /\ UNCHANGED <<barcode_lines, task, pb>>
       ELSE LET all == fs[barcodes_file].lines
                rows == IF all = <<>> THEN <<>> ELSE Tail(all)
            IN  /\ barcode_lines' = rows
                /\ task' = [i \in 1..Len(rows) |-> NewTask]
                /\ pb' = [pos |-> 0, len |-> Len(rows)]
                /\ run' = [run EXCEPT !.pc = "for_each"]
    /\ UNCHANGED <<fs, barcodes_file, log, reread, manifest, biom, merge>>

\* One row's closure from its start to the call of demultiplex_fastq_files,
\* or to its return when the row is rejected.
TaskStart(i) ==
    /\ run.pc = "for_each"
    /\ i \in DOMAIN task
    /\ task[i].pc = "start"
    /\ LET c == ClosureStart(task[i], barcode_lines[i])
       IN  /\ task' = [task EXCEPT ![i] = c.t]
           /\ log' = IF c.msg = "" THEN log ELSE log \cup {<<i, c.msg>>}
           /\ pb' = [pb EXCEPT !.pos = @ + c.inc]
    /\ UNCHANGED <<fs, barcodes_file, run, barcode_lines, reread, manifest, biom, merge>>

\* Lines 114-123: an error of demultiplex_fastq_files is printed, and the
\* counter incremented.
TaskEnd(i) ==
    /\ run.pc = "for_each"
    /\ i \in DOMAIN task
    /\ task[i].pc = "returned"
    /\ log' = IF task[i].result.tag = "Err"
              THEN log \cup {<<i, "Error processing">>} ELSE log
    /\ pb' = [pb EXCEPT !.pos = @ + 1]
    /\ task' = [task EXCEPT ![i].pc = "done"]
    /\ UNCHANGED <<fs, barcodes_file, run, barcode_lines, reread, manifest, biom, merge>>

\* Lines 124-127: for_each returns once every closure has ended.  A closure
\* that panicked makes for_each resume the panic in the caller, so that
\* run_demultiplex_combined is left by unwinding and returns nothing.  (Rows
\* that rayon never starts after a panic are not modelled.)
RunFinish ==
    /\ run.pc = "for_each"
    /\ \A i \in DOMAIN task : task[i].pc \in {"done", "panicked"}
    /\ run' = IF \E i \in DOMAIN task : task[i].pc = "panicked"
              THEN [pc |-> "panicked", result |-> Panic]
              ELSE [pc |-> "returned", result |-> Ok(Unit)]
    /\ UNCHANGED <<fs, barcodes_file, barcode_lines, task, pb, log, reread, manifest, biom, merge>>

\* The two output files of a finished call are read back.
Reread(i) ==
    /\ run.pc = "direct"
    /\ i \in DOMAIN task
    /\ task[i].pc = "returned"
    /\ task[i].result.tag = "Ok"
    /\ reread = <<>>
    /\ reread' = << ReadAll(outfile1(task[i].outbase)),
                    ReadAll(outfile2(task[i].outbase)) >>
    /\ UNCHANGED <<fs, barcodes_file, run, barcode_lines, task, pb, log, manifest, biom, merge>>

---------------------------------------------------------------------------
(* Inputs.                                                                 *)

Bases == {"A", "C"}

\* The sequences over S of length 1..n.
RECURSIVE SeqsUpTo(_, _)
SeqsUpTo(S, n) ==
    IF n = 0 THEN {}
    ELSE LET shorter == SeqsUpTo(S, n - 1)
         IN  {<<c>> : c \in S} \cup shorter \cup {Append(t, c) : t \in shorter, c \in S}

\* The sequences of length 0..n of elements of S.
ListsUpTo(S, n) == UNION {[1..k -> S] : k \in 0..n}

\* The input paths of a stem, as line 95, line 103 and find_fastq build them.
InPath(stem, role, gz) ==
    stem \o (IF role = 1 THEN <<"_R1_001.fastq">> ELSE <<"_R2_001.fastq">>)
         \o (IF gz THEN <<".gz">> ELSE <<>>)


\* Forward reads: the 4-base spacer region cut short, or whole and followed
\* by up to MaxTail bases.  The spacer holds the bases the adapters are made
\* of, so that an adapter can occur at another offset than 4.
Spacer == <<"A", "C", "A", "C">>
Tails == SeqsUpTo(Bases, MaxTail)
ReadSeqs == {SubSeq(Spacer, 1, n) : n \in {0, 3, 4}} \cup {Spacer \o t : t \in Tails}

\* Quality strings name their positions, so that a cut is visible; the reader
\* accepts a quality of another length than the sequence, but not an empty
\* one.
QualChars == <<"1", "2", "3", "4", "5", "6", "7", "8", "9">>
Qual(n) == SubSeq(QualChars, 1, n)
QualLens(seq) == {n \in {Len(seq) - 1, Len(seq)} : n >= 1} \cup
                 (IF seq = <<>> THEN {1} ELSE {})

\* The k-th forward record of a file: a description on the first only.
FwdRecord(k, seq, n) ==
    Record(<<"r", QualChars[k]>>, IF k = 1 THEN << <<"d">> >> ELSE <<>>, seq, Qual(n))
FwdChoices == {<<seq, n>> : seq \in ReadSeqs, n \in 0..(MaxTail + 4)}
FwdReads == {c \in FwdChoices : c[2] \in QualLens(c[1])}

\* The k-th reverse record.
RevRecord(k) == Record(<<"m", QualChars[k]>>, <<>>, <<"C", "A">>, Qual(2))

\* A line no FASTQ record starts with.
Garbage == << <<"x">> >>

Adapters == {<<>>} \cup SeqsUpTo(Bases, 1)

TrimIn1 == InPath(<<"x">>, 1, TRUE)
TrimIn2 == InPath(<<"x">>, 2, TRUE)
TrimOutbase == <<"s", "_", "A">>

\* The forward streams: up to MaxRecords reads, one of them any read of
\* FwdReads, the others one of two standard reads.
Fillers == {<<Spacer \o <<"A", "C">>, 6>>, <<Spacer \o <<"C", "A">>, 6>>}
FwdStreams ==
    {<<>>} \cup
    UNION { { [k \in 1..n |-> IF k = p THEN c ELSE fill[k]] :
                p \in 1..n, c \in FwdReads, fill \in [1..n -> Fillers] } :
            n \in 1..MaxRecords }

\* A call demultiplex_fastq_files(TrimIn1, TrimIn2, adaptseq, TrimOutbase)
\* on two gzipped FASTQ files: up to MaxRecords records each, well formed or
\* ending in a line that cannot be parsed.
InitTrim ==
    \E fwd \in FwdStreams, nrev \in 0..MaxRecords,
       bad1 \in BOOLEAN, bad2 \in BOOLEAN, adaptseq \in Adapters :
        LET recs1 == [k \in 1..Len(fwd) |-> FwdRecord(k, fwd[k][1], fwd[k][2])]
            recs2 == [k \in 1..nrev |-> RevRecord(k)]
        IN  /\ fs = (TrimIn1 :> File("gz", FastqLines(recs1) \o
                                           (IF bad1 THEN Garbage ELSE <<>>)))
                    @@ (TrimIn2 :> File("gz", FastqLines(recs2) \o
                                              (IF bad2 THEN Garbage ELSE <<>>)))
            /\ task = << [NewTask EXCEPT !.pc = "demux", !.in1 = TrimIn1, !.in2 = TrimIn2,
                                         !.adaptseq = adaptseq, !.outbase = TrimOutbase] >>
            /\ barcodes_file = <<>>
            /\ run = [pc |-> "direct", result |-> NoResult]
            /\ barcode_lines = <<>>
            /\ pb = [pos |-> 0, len |-> 0]
            /\ log = {}
            /\ reread = <<>>
            /\ manifest = Idle
            /\ biom = Idle
            /\ merge = Idle

\* The rows a run can have.
TaskIds == 1..MaxRows

NextTrim ==
    \/ \E i \in TaskIds : DemuxOpen(i)
    \/ \E i \in TaskIds : DemuxCreate(i)
    \/ \E i \in TaskIds : LoopIter(i)
    \/ \E i \in TaskIds : DemuxFlush(i)
    \/ \E i \in TaskIds : Reread(i)

SpecTrim == InitTrim /\ [][NextTrim]_vars

---------------------------------------------------------------------------
(* A run: a barcodes file of up to MaxRows rows, and the inputs of two     *)
(* stems, x and y.                                                         *)

BarcodesPath == <<"barcodes.tsv">>
HeaderLine == JoinTab(<< <<"n">>, <<"f">>, <<"i">>, <<"a">>, <<"j">>, <<"b">> >>)
RowLine(name, stem, seq2) == JoinTab(<<name, stem, <<"i">>, <<"G">>, <<"j">>, seq2>>)

\* The rows of the barcodes file: three rows of six fields (the first and the
\* third have the same name and seq2), a row padded with whitespace, and a
\* row of five fields.
RowMenu ==
    { RowLine(<<"s">>, <<"x">>, <<"A">>),
      RowLine(<<"t">>, <<"y">>, <<"A">>),
      RowLine(<<"s">>, <<"y">>, <<"A">>),
      <<" ">> \o RowLine(<<"t">>, <<"x">>, <<"A">>) \o <<"\t">>,
      JoinTab(<< <<"s">>, <<"x">>, <<"i">>, <<"G">>, <<"j">> >>) }

\* The input files of stem x that may exist, each with its content.
XRoles == {<<1, TRUE>>, <<1, FALSE>>, <<2, TRUE>>, <<2, FALSE>>}
XContent(role, gz) ==
    IF role = 1
    THEN IF gz THEN <<FwdRecord(1, Spacer \o <<"A", "C">>, 6)>>
         ELSE <<FwdRecord(1, Spacer \o <<"C", "A">>, 6)>>
    ELSE IF gz THEN <<RevRecord(1)>> ELSE <<RevRecord(1), RevRecord(2)>>
XFiles(present) ==
    [p \in {InPath(<<"x">>, r[1], r[2]) : r \in present} |->
        LET r == CHOOSE r \in present : InPath(<<"x">>, r[1], r[2]) = p
        IN  File(IF r[2] THEN "gz" ELSE "plain", FastqLines(XContent(r[1], r[2])))]

\* The inputs of stem y: absent, or both gzipped files, the forward one a
\* matching read, a line that cannot be parsed, or a matching read whose
\* quality is shorter than the sequence.
YKinds == {"none", "good", "garbage", "shortqual"}
YFiles(kind) ==
    IF kind = "none" THEN <<>>
    ELSE (InPath(<<"y">>, 1, TRUE) :>
            File("gz", IF kind = "good"
                       THEN FastqLines(<<FwdRecord(1, Spacer \o <<"A">>, 5)>>)
                       ELSE IF kind = "garbage" THEN Garbage
                       ELSE FastqLines(<<FwdRecord(1, Spacer \o <<"A">>, 4)>>)))
         @@ (InPath(<<"y">>, 2, TRUE) :> File("gz", FastqLines(<<RevRecord(1)>>)))

\* The inputs vary one at a time: any set of input files of stem x beside
\* good inputs of stem y, or any inputs of stem y beside both gzipped files
\* of stem x; the path given is the barcodes file's or that of no file.
BothGz == {<<1, TRUE>>, <<2, TRUE>>}
InputChoices ==
    {c \in (SUBSET XRoles) \X YKinds \X {BarcodesPath, <<"absent.tsv">>} :
        /\ c[2] = "good" \/ c[1] = BothGz
        /\ c[3] # BarcodesPath => (c[1] = BothGz /\ c[2] = "good")}

Init ==
    \E rows \in ListsUpTo(RowMenu, MaxRows), c \in InputChoices :
      LET present == c[1]
          kind == c[2]
          bf == c[3]
      IN
        /\ fs = (BarcodesPath :> File("plain", <<HeaderLine>> \o rows))
                @@ XFiles(present) @@ YFiles(kind)
        /\ barcodes_file = bf
        /\ run = [pc |-> "init", result |-> NoResult]
        /\ barcode_lines = <<>>
        /\ task = <<>>
        /\ pb = [pos |-> 0, len |-> 0]
        /\ log = {}
        /\ reread = <<>>
        /\ manifest = Idle
        /\ biom = Idle
        /\ merge = Idle

Next ==
    \/ RunStart
    \/ \E i \in TaskIds : TaskStart(i)
    \/ \E i \in TaskIds : DemuxOpen(i)
    \/ \E i \in TaskIds : DemuxCreate(i)
    \/ \E i \in TaskIds : LoopIter(i)
    \/ \E i \in TaskIds : DemuxFlush(i)
    \/ \E i \in TaskIds : TaskEnd(i)
    \/ RunFinish

Spec == Init /\ [][Next]_vars

---------------------------------------------------------------------------
(* The claims' vocabulary, stated from the specification's words.          *)

\* The forward sequence has at least 4 + len(adapter) bytes and its bytes at
\* [4, 4 + len(adapter)) are the adapter's.
ClaimMatch(seq, adapter) ==
    /\ Len(seq) >= 4 + Len(adapter)
    /\ \A p \in 1..Len(adapter) : seq[4 + p] = adapter[p]

\* s is r with its first n bytes removed.
IsCutOf(s, r, n) ==
    /\ Len(s) + n = Len(r)
    /\ \A p \in 1..Len(s) : s[p] = r[n + p]

\* w is the forward record r trimmed for the adapter.
IsTrimOf(w, r, adapter) ==
    /\ w.id = r.id
    /\ w.desc = r.desc
    /\ IsCutOf(w.seq, r.seq, 4 + Len(adapter))
    /\ IsCutOf(w.qual, r.qual, 4 + Len(adapter))

\* The two input streams of a call: the records before the end or the first
\* line that cannot be parsed, and how the stream ends ("eof" or "err").
Forward(t) == ReadAll(t.in1)
Reverse(t) == ReadAll(t.in2)
NumPairs(t) == Min(Len(Forward(t).recs), Len(Reverse(t).recs))

\* The positions, among the first n, of the pairs whose forward read matches.
MatchingPairs(t, n) ==
    {k \in 1..n : ClaimMatch(Forward(t).recs[k].seq, t.adaptseq)}

\* The k-th smallest element of a finite set of numbers.
RECURSIVE Nth(_, _)
Nth(S, k) ==
    LET m == CHOOSE x \in S : \A y \in S : x <= y
    IN  IF k = 1 THEN m ELSE Nth(S \ {m}, k - 1)

\* The pair the next iteration of the loop reads.
NextPair(t) ==
    [r1 |-> records_next(t.in1, t.pos1), r2 |-> records_next(t.in2, t.pos2)]

Returned(t) == t.pc = "returned"
Succeeded(t) == t.pc = "returned" /\ t.result.tag = "Ok"

---------------------------------------------------------------------------
(* Claims.                                                                 *)

\* C1: in an iteration of the trim loop that reads a forward/reverse pair
\* whose forward sequence holds the adapter at [4, 4 + len(adapter)), the
\* forward record written has the input's identifier and description and
\* its sequence and quality without their first 4 + len(adapter) bytes, and
\* the reverse record written is the input reverse record; the pair is
\* written whenever the quality has that many bytes.
C1_TrimmedPairWritten ==
    [][\A i \in DOMAIN task :
         LET t == task[i]
             u == task'[i]
             pr == NextPair(t)
         IN  ( /\ t.pc = "loop" /\ u # t
               /\ pr.r1.status = "ok" /\ pr.r2.status = "ok"
               /\ ClaimMatch(pr.r1.rec.seq, t.adaptseq)
               /\ \/ Len(pr.r1.rec.qual) >= 4 + Len(t.adaptseq)
                  \/ u.out1 # t.out1
                  \/ u.out2 # t.out2 )
             => /\ Len(u.out1) = Len(t.out1) + 1
                /\ SubSeq(u.out1, 1, Len(t.out1)) = t.out1
                /\ IsTrimOf(u.out1[Len(u.out1)], pr.r1.rec, t.adaptseq)
                /\ u.out2 = t.out2 \o <<pr.r2.rec>>
      ]_vars

\* C1's case: a call with a non-empty adapter has written a pair whose
\* trimmed forward read still has bases, and has returned.
C1_Witness ==
    \E i \in DOMAIN task :
        /\ run.pc = "direct"
        /\ Succeeded(task[i])
        /\ task[i].adaptseq # <<>>
        /\ task[i].out1 # <<>>
        /\ task[i].out1[1].seq # <<>>
        /\ task[i].out2 # <<>>

\* C2: an iteration that reads a pair writes it to both outputs if and only
\* if the forward sequence has at least 4 + len(adapter) bytes and holds the
\* adapter at [4, 4 + len(adapter)); every other pair reaches neither output.
C2_WrittenIffMatch ==
    [][\A i \in DOMAIN task :
         LET t == task[i]
             u == task'[i]
             pr == NextPair(t)
         IN  ( /\ t.pc = "loop" /\ u # t
               /\ pr.r1.status = "ok" /\ pr.r2.status = "ok" )
             => IF ClaimMatch(pr.r1.rec.seq, t.adaptseq)
                THEN /\ Len(u.out1) = Len(t.out1) + 1
                     /\ Len(u.out2) = Len(t.out2) + 1
                ELSE /\ u.out1 = t.out1
                     /\ u.out2 = t.out2
      ]_vars

\* The records written come from the first min(|F|, |R|) pairs.
WithinPairs(t, u) ==
    /\ \A j \in 1..Len(u.out1) :
           \E k \in 1..NumPairs(t) : u.out1[j].id = Forward(t).recs[k].id
    /\ \A j \in 1..Len(u.out2) :
           \E k \in 1..NumPairs(t) : u.out2[j] = Reverse(t).recs[k]

\* C3, as claimed: the loop stops as soon as either stream is exhausted,
\* whatever the other stream holds at that position, and the call then
\* returns success; no record beyond position min(|F|, |R|) is written.
C3_StopsWhenEitherExhausted ==
    [][\A i \in DOMAIN task :
         LET t == task[i]
             u == task'[i]
             pr == NextPair(t)
         IN  /\ ( /\ t.pc = "loop" /\ u # t
                  /\ (pr.r1.status = "eof" \/ pr.r2.status = "eof") )
                => (u.pc = "flush" /\ u.out1 = t.out1 /\ u.out2 = t.out2)
             /\ (t.pc = "flush" /\ u # t) => (Returned(u) /\ u.result = Ok(Unit))
             /\ WithinPairs(t, u)
      ]_vars

\* C3, amended: the forward record of a position is read first.  The loop
\* stops, and the call returns success, as soon as the forward stream is
\* exhausted, or the reverse stream is exhausted and the forward record of
\* that position parses; a forward record that cannot be parsed ends the call
\* with its error before the reverse stream is looked at.  A pair that is
\* read advances both streams by one record, and no record beyond position
\* min(|F|, |R|) is written.
C3_StopsAtExhaustion ==
    [][\A i \in DOMAIN task :
         LET t == task[i]
             u == task'[i]
             pr == NextPair(t)
         IN  /\ ( /\ t.pc = "loop" /\ u # t
                  /\ \/ pr.r1.status = "eof"
                     \/ (pr.r1.status = "ok" /\ pr.r2.status = "eof") )
                => (u.pc = "flush" /\ u.out1 = t.out1 /\ u.out2 = t.out2)
             /\ (t.pc = "loop" /\ u # t /\ pr.r1.status = "err")
                => (Returned(u) /\ u.result.tag = "Err" /\ u.pos2 = t.pos2)
             /\ ( /\ t.pc = "loop" /\ u # t
                  /\ pr.r1.status = "ok" /\ pr.r2.status = "ok" )
                => (u.pos1 = pr.r1.pos /\ u.pos2 = pr.r2.pos)
             /\ (t.pc = "flush" /\ u # t) => (Returned(u) /\ u.result = Ok(Unit))
             /\ WithinPairs(t, u)
      ]_vars

\* C3's case: a call on streams of different lengths has written a pair,
\* stopped at the end of the shorter stream and returned success.
C3_Witness ==
    \E i \in DOMAIN task :
        /\ run.pc = "direct"
        /\ Succeeded(task[i])
        /\ Len(Forward(task[i]).recs) # Len(Reverse(task[i]).recs)
        /\ NumPairs(task[i]) >= 1
        /\ task[i].out1 # <<>>

\* C4: once a call has returned success, reading its two output files back
\* yields, in each, exactly one record per matching pair among the first
\* min(|F|, |R|) pairs, in their order: the trimmed forward records and the
\* reverse records.
C4_RoundTrip ==
    \A i \in DOMAIN task :
        (Succeeded(task[i]) /\ reread # <<>>) =>
            LET t == task[i]
                M == MatchingPairs(t, NumPairs(t))
                N == Cardinality(M)
            IN  /\ reread[1].status = "eof"
                /\ reread[2].status = "eof"
                /\ Len(reread[1].recs) = N
                /\ Len(reread[2].recs) = N
                /\ \A j \in 1..N :
                      /\ IsTrimOf(reread[1].recs[j], Forward(t).recs[Nth(M, j)], t.adaptseq)
                      /\ reread[2].recs[j] = Reverse(t).recs[Nth(M, j)]


RowFields(i) == Split(Trim(barcode_lines[i]), "\t")
SixFields(i) == Len(RowFields(i)) = 6
SampleId(i) == LET f == RowFields(i) IN f[1] \o <<"_">> \o f[6]
ForEachEnded == run.pc \notin {"init", "for_each"} /\ exists(barcodes_file)

\* What locate_paired_files is claimed to return for a stem and a role: the
\* compressed file when it exists, else the uncompressed one when it exists,
\* else nothing.
Located(stem, role) ==
    IF InPath(stem, role, TRUE) \in DOMAIN fs THEN <<InPath(stem, role, TRUE)>>
    ELSE IF InPath(stem, role, FALSE) \in DOMAIN fs THEN <<InPath(stem, role, FALSE)>>
    ELSE <<>>

\* The files task i has created.
CreatedBy(i) == {p \in DOMAIN fs : i \in fs[p].creators}

\* C5, as claimed: the batch always drains and returns, every row having
\* been processed to completion, whatever happened to the other rows; rows
\* that are rejected or whose trimming fails are logged.
C5_BatchDrainsAndReturns ==
    ForEachEnded =>
        /\ run.pc = "returned"
        /\ run.result.tag = "Ok"
        /\ \A i \in DOMAIN task : task[i].pc = "done"
        /\ \A i \in DOMAIN task :
               task[i].result.tag # "Ok" => \E m \in log : m[1] = i

\* C6, as claimed: the progress counter never decreases, is incremented
\* exactly once by each row, and when the parallel loop has ended its value
\* is the number of rows.
C6_CounterOncePerRow ==
    [][ /\ pb'.pos >= pb.pos
        /\ \A i \in DOMAIN task :
               (i \in DOMAIN task' /\ task'[i] # task[i]) =>
                   pb'.pos = pb.pos + (IF task'[i].pc = "done" THEN 1 ELSE 0)
        /\ (run.pc = "for_each" /\ run'.pc # "for_each") =>
               pb'.pos = Len(barcode_lines')
      ]_vars

\* The two output files of a row's sample-id.
SampleFiles(i) ==
    LET id == SampleId(i)
    IN  { OUTPUT_DIR \o <<"/">> \o id \o <<"_L001_R1_001.fastq", ".gz">>,
          OUTPUT_DIR \o <<"/">> \o id \o <<"_L001_R2_001.fastq", ".gz">> }

\* C7, as claimed: no output file is created by two tasks of a run, also
\* when two accepted rows have the same name and seq2.
C7_NoSharedOutputFile ==
    \A p \in DOMAIN fs : Cardinality(fs[p].creators) <= 1

\* C7, amended: two tasks of a run create the same output file only when
\* their rows have the same sample-id name_seq2 (such rows collide: both
\* tasks create and write both files of that sample-id); tasks of rows with
\* different sample-ids create no file in common, and every file a task
\* creates is one of the two output files of its row's sample-id.
C7_SharedOnlyOnSameSampleId ==
    /\ \A p \in DOMAIN fs : \A i \in fs[p].creators, j \in fs[p].creators :
           i < j => SampleId(i) = SampleId(j)
    /\ \A i \in DOMAIN task :
           CreatedBy(i) # {} => (SixFields(i) /\ CreatedBy(i) \subseteq SampleFiles(i))

\* C7's case: a run has ended in which two rows of the same sample-id both
\* created the sample's two output files.
C7_Witness ==
    /\ run.pc = "returned"
    /\ \E i \in DOMAIN task, j \in DOMAIN task :
           /\ i # j
           /\ CreatedBy(i) # {}
           /\ CreatedBy(i) = CreatedBy(j)

\* C8: for a six-field row, each role resolves to the compressed input file
\* when it exists (also when the uncompressed file exists too), otherwise to
\* the uncompressed one when it exists, otherwise to nothing; the sample is
\* processed, on the files so resolved, exactly when both roles resolve, and
\* is skipped otherwise.
C8_PrefersGzAndNeedsBoth ==
    \A i \in DOMAIN task :
        (task[i].pc # "start" /\ SixFields(i)) =>
            LET t == task[i]
                stem == RowFields(i)[2]
                r1 == Located(stem, 1)
                r2 == Located(stem, 2)
            IN  IF r1 # <<>> /\ r2 # <<>>
                THEN /\ t.in1 = r1[1]
                     /\ t.in2 = r2[1]
                     /\ \A m \in log : m[1] = i => m[2] = "Error processing"
                ELSE /\ t.pc = "done"
                     /\ t.in1 = <<>> /\ t.in2 = <<>>
                     /\ t.result = NoResult
                     /\ CreatedBy(i) = {}
                     /\ <<i, IF r1 = <<>> THEN "R1 file does not exist"
                                          ELSE "R2 file does not exist">> \in log

\* C8's case: a row was processed on the compressed forward file while the
\* uncompressed forward file exists too, and on the uncompressed reverse file
\* as no compressed one exists.
C8_Witness ==
    \E i \in DOMAIN task :
        /\ task[i].pc = "done"
        /\ task[i].result.tag = "Ok"
        /\ task[i].in1 = InPath(<<"x">>, 1, TRUE)
        /\ InPath(<<"x">>, 1, FALSE) \in DOMAIN fs
        /\ task[i].in2 = InPath(<<"x">>, 2, FALSE)

\* The rows that failed: rejected, without an input file, or whose trimming
\* returned an error.
FailedRows == {i \in DOMAIN task : task[i].result.tag # "Ok"}

\* C10, as claimed: the run completes and reports a tally of the samples that
\* succeeded and of those that failed, the latter being the number of rows
\* that were invalid, lacked an input file or whose trimming returned an
\* error.
C10_TallyReported ==
    ForEachEnded =>
        /\ run.pc = "returned"
        /\ run.result.tag = "Ok"
        /\ run.result.value = <<Len(barcode_lines) - Cardinality(FailedRows),
                                Cardinality(FailedRows)>>

---------------------------------------------------------------------------
(* generate_qiime_manifest (src/src/demultiplex.rs).                       *)

\* The qiime_manifest argument, and the path the manifest is written to.
ManifestName == <<"manifest.tsv">>
manifest_path == out_path(ManifestName)

MANIFEST_HEADER ==
    <<"sample-id", "\t", "forward-absolute-filepath", "\t", "reverse-absolute-filepath">>

\* fs::canonicalize: Ok(absolute path) is <<path>>, the NotFound error <<>>.
\* The working directory is Cwd; no path of the model is a symbolic link.
Cwd == <<"/cwd", "/">>
canonicalize(path) == IF exists(path) THEN <<Cwd \o path>> ELSE <<>>

\* Line 158: the fields of a line, which is not trimmed.
manifest_fields(line) == Split(line, "\t")

manifest_row_reverse_first(sample_id, forward_abs, reverse_abs) ==
    sample_id \o <<"\t">> \o reverse_abs \o <<"\t">> \o forward_abs

\* Lines 175-181: the row of a sample.
manifest_row(sample_id, forward_abs, reverse_abs) ==
    sample_id \o <<"\t">> \o forward_abs \o <<"\t">> \o reverse_abs

\* A file with lines appended by writeln! on an unbuffered File.
Appended(f, path, line) == [f EXCEPT ![path].lines = Append(@, line)]

\* Lines 140-149: the barcodes file is opened, the manifest created (or
\* truncated) and its header written.
ManifestStart ==
    /\ manifest.pc = "call"
    /\ IF ~exists(barcodes_file)
       THEN /\ manifest' = [pc |-> "returned", result |-> Err("NotFound")]
            /\ fs' = fs
       ELSE /\ manifest' = [pc |-> "lines", lines |-> fs[barcodes_file].lines,
                            i |-> 0, result |-> NoResult]
            /\ fs' = [p \in DOMAIN fs \cup {manifest_path} |->
                        IF p = manifest_path THEN File("plain", <<MANIFEST_HEADER>>)
                        ELSE fs[p]]
    /\ UNCHANGED <<barcodes_file, run, barcode_lines, task, pb, log, reread, biom, merge>>

\* Lines 151-182: one iteration of the loop over the lines; i is the index
\* enumerate() gives the line.
ManifestLine ==
    /\ manifest.pc = "lines"
    /\ manifest.i < Len(manifest.lines)
    /\ LET i == manifest.i
           line == manifest.lines[i + 1]
           fields == manifest_fields(line)
           sample_id == fields[1] \o <<"_">> \o fields[6]
           forward_rel == sample_id \o <<"_L001_R1_001.fastq", ".gz">>
           reverse_rel == sample_id \o <<"_L001_R2_001.fastq", ".gz">>
           forward_abs == canonicalize(out_path(forward_rel))
           reverse_abs == canonicalize(out_path(reverse_rel))
           next == [manifest EXCEPT !.i = i + 1]
       IN  IF i = 0
           THEN manifest' = next /\ UNCHANGED <<fs, log>>
           ELSE IF Len(fields) # 6
           THEN /\ manifest' = next
                /\ log' = log \cup {<<i, "Skipping invalid line">>}
                /\ fs' = fs
           ELSE IF forward_abs = <<>> \/ reverse_abs = <<>>
           THEN /\ manifest' = [next EXCEPT !.pc = "returned", !.result = Err("NotFound")]
                /\ UNCHANGED <<fs, log>>
           ELSE /\ manifest' = next
                /\ fs' = Appended(fs, manifest_path,
                                  manifest_row(sample_id, forward_abs[1], reverse_abs[1]))
                /\ log' = log
    /\ UNCHANGED <<barcodes_file, run, barcode_lines, task, pb, reread, biom, merge>>

\* Line 184: Ok(()) once every line has been read.
ManifestReturn ==
    /\ manifest.pc = "lines"
    /\ manifest.i = Len(manifest.lines)
    /\ manifest' = [manifest EXCEPT !.pc = "returned", !.result = Ok(Unit)]
    /\ UNCHANGED <<fs, barcodes_file, run, barcode_lines, task, pb, log, reread, biom, merge>>

\* The demultiplexed output files that may exist when the manifest is built.
ManifestSampleIds == {<<"s", "_", "A">>, <<"t", "_", "A">>}
ManifestOutputs == {outfile1(id) : id \in ManifestSampleIds} \cup
                   {outfile2(id) : id \in ManifestSampleIds}

\* A call generate_qiime_manifest(barcodes_file, ManifestName): a barcodes
\* file of up to MaxRows rows, any set of the output files, and possibly a
\* manifest left by an earlier call.
InitManifest ==
    \E rows \in ListsUpTo(RowMenu, MaxRows), present \in SUBSET ManifestOutputs,
       old \in BOOLEAN, bf \in {BarcodesPath, <<"absent.tsv">>} :
        /\ fs = (BarcodesPath :> File("plain", <<HeaderLine>> \o rows))
                @@ [p \in present |-> File("gz", <<>>)]
                @@ (IF old THEN manifest_path :> File("plain", << <<"old">>, <<"old">> >>)
                    ELSE <<>>)
        /\ barcodes_file = bf
        /\ manifest = [pc |-> "call"]
        /\ run = [pc |-> "direct", result |-> NoResult]
        /\ barcode_lines = <<>>
        /\ task = <<>>
        /\ pb = [pos |-> 0, len |-> 0]
        /\ log = {}
        /\ reread = <<>>
        /\ biom = Idle
        /\ merge = Idle

NextManifest ==
    \/ ManifestStart
    \/ ManifestLine
    \/ ManifestReturn

SpecManifest == InitManifest /\ [][NextManifest]_vars

\* The barcode rows (the lines after the header) and, in the claim's words,
\* those of exactly six tab-separated fields, with their sample-id and the
\* manifest row expected for them.
TableRows == Tail(fs[BarcodesPath].lines)
HasSixFields(line) == Len(Split(line, "\t")) = 6
RowSampleId(line) == Split(line, "\t")[1] \o <<"_">> \o Split(line, "\t")[6]
ForwardOutput(line) ==
    OUTPUT_DIR \o <<"/">> \o RowSampleId(line) \o <<"_L001_R1_001.fastq", ".gz">>
ReverseOutput(line) ==
    OUTPUT_DIR \o <<"/">> \o RowSampleId(line) \o <<"_L001_R2_001.fastq", ".gz">>
ExpectedManifestRow(line) ==
    RowSampleId(line) \o <<"\t">> \o Cwd \o ForwardOutput(line)
                      \o <<"\t">> \o Cwd \o ReverseOutput(line)
OutputsMissing(line) ==
    ForwardOutput(line) \notin DOMAIN fs \/ ReverseOutput(line) \notin DOMAIN fs

\* C11: once generate_qiime_manifest has returned on a barcodes file that
\* exists: when both output files of every six-field row exist it has
\* succeeded and the manifest holds the fixed header followed by one row per
\* six-field row, in table order, made of the sample-id name_seq2 and the
\* absolute paths of the sample's forward and reverse outputs, rows of
\* another field count being skipped; when an output file of a six-field row
\* is missing it has failed with a not-found error.
C11_ManifestRows ==
    (manifest.pc = "returned" /\ barcodes_file = BarcodesPath) =>
        LET six == SelectSeq(TableRows, HasSixFields)
        IN  IF \E j \in 1..Len(six) : OutputsMissing(six[j])
            THEN manifest.result = Err("NotFound")
            ELSE /\ manifest.result = Ok(Unit)
                 /\ fs[manifest_path].lines =
                        <<MANIFEST_HEADER>> \o [j \in 1..Len(six) |-> ExpectedManifestRow(six[j])]

\* C11's case: a manifest with the row of a sample has been written from a
\* table that also has a row that is skipped.
C11_Witness ==
    /\ manifest.pc = "returned"
    /\ manifest.result = Ok(Unit)
    /\ Len(fs[manifest_path].lines) = 2
    /\ Len(TableRows) = 2
    /\ \E m \in log : m[2] = "Skipping invalid line"

---------------------------------------------------------------------------
(* The csv crate's writer and reader, on lines of tokens.                  *)

\* Writer (QuoteStyle::Necessary): a field is quoted when it holds the
\* delimiter, a quote or a line end, and the only field of a record when it
\* is empty; quotes inside are doubled.
csv_needs_quotes(field) ==
    \E p \in 1..Len(field) : field[p] \in {"\t", "\"", "\n", "\r"}

RECURSIVE csv_escape(_)
csv_escape(field) ==
    IF field = <<>> THEN <<>>
    ELSE (IF Head(field) = "\"" THEN <<"\"", "\"">> ELSE <<Head(field)>>)
         \o csv_escape(Tail(field))

csv_field(field) ==
    IF csv_needs_quotes(field) THEN <<"\"">> \o csv_escape(field) \o <<"\"">>
    ELSE field

RECURSIVE csv_join(_)
csv_join(fields) ==
    IF Len(fields) = 0 THEN <<>>
    ELSE IF Len(fields) = 1 THEN csv_field(fields[1])
    ELSE csv_field(fields[1]) \o <<"\t">> \o csv_join(Tail(fields))

\* Writer::write_record: the line written for a record.
csv_write_record(fields) ==
    IF fields = << <<>> >> THEN <<"\"", "\"">> ELSE csv_join(fields)

\* Reader: the fields of a line, from token p on; cur is the field being
\* read, quoted whether p is inside a quoted field.
RECURSIVE csv_fields_from(_, _, _, _)
csv_fields_from(line, p, cur, quoted) ==
    IF p > Len(line) THEN <<cur>>
    ELSE IF quoted
    THEN IF line[p] = "\""
         THEN IF p < Len(line) /\ line[p + 1] = "\""
              THEN csv_fields_from(line, p + 2, Append(cur, "\""), TRUE)
              ELSE csv_fields_from(line, p + 1, cur, FALSE)
         ELSE csv_fields_from(line, p + 1, Append(cur, line[p]), TRUE)
    ELSE IF line[p] = "\t" THEN <<cur>> \o csv_fields_from(line, p + 1, <<>>, FALSE)
    ELSE IF line[p] = "\"" /\ cur = <<>> THEN csv_fields_from(line, p + 1, cur, TRUE)
    ELSE csv_fields_from(line, p + 1, Append(cur, line[p]), FALSE)

csv_read_record(line) == csv_fields_from(line, 1, <<>>, FALSE)

---------------------------------------------------------------------------
(* Numbers.  A number is k * 2^62 + n + the fraction f, with f one of "0", *)
(* "half" (0.5) and "tiny" (1e-17): the sample points at which f64 and i64 *)
(* differ from the reals.                                                  *)

Num(k, n, f) == [k |-> k, n |-> n, f |-> f]
Zero == Num(0, 0, "0")

\* JSON values: numbers, written as an integer or with a fraction or
\* exponent (lex), and strings.
JNum(lex, k, n, f) == [t |-> "num", lex |-> lex, k |-> k, n |-> n, f |-> f]
JInt(n) == JNum("int", 0, n, "0")
JStr == [t |-> "str", lex |-> "", k |-> 0, n |-> 0, f |-> "0"]

\* as_u64 taking the integer part of any number that is not negative.
as_u64_truncating(v) ==
    IF v.t = "num" /\ (v.k > 0 \/ (v.k = 0 /\ v.n >= 0)) /\ v.k < 4
    THEN <<Num(v.k, v.n, "0")>>
    ELSE <<>>

\* Value::as_u64: Some(n) is <<n>>, None is <<>>.  serde_json keeps an
\* integer literal as u64 when it is in 0..2^64-1.
as_u64(v) ==
    IF v.t = "num" /\ v.lex = "int" /\ v.f = "0"
       /\ (v.k > 0 \/ (v.k = 0 /\ v.n >= 0)) /\ v.k < 4
    THEN <<Num(v.k, v.n, "0")>>
    ELSE <<>>

\* Value::as_f64: Some(x) is <<x>>, None is <<>>.  An integer beyond 2^53
\* is rounded to the nearest f64: of k * 2^62 + n only k * 2^62 is left.
as_f64(v) ==
    IF v.t # "num" THEN <<>>
    ELSE IF v.k # 0 THEN <<Num(v.k, 0, "0")>>
    ELSE <<Num(0, v.n, v.f)>>

\* `val as i64`: truncation towards zero, saturating at i64::MIN = -2^63 and
\* i64::MAX = 2^63 - 1.
as_i64(val) ==
    IF val.k >= 2 THEN Num(2, 0 - 1, "0")
    ELSE IF val.k <= 0 - 3 THEN Num(0 - 2, 0, "0")
    ELSE Num(val.k, val.n, "0")

Digits == <<"0", "1", "2", "3", "4", "5", "6", "7", "8", "9">>

\* The decimal digits of a natural number.
RECURSIVE NatText(_)
NatText(n) ==
    IF n < 10 THEN <<Digits[n + 1]>> ELSE NatText(n \div 10) \o <<Digits[(n % 10) + 1]>>

\* The decimal text of the integer k * 2^62 + n, for the k and n of the
\* model.
IntText(k, n) ==
    IF k = 0 THEN (IF n < 0 THEN <<"-">> \o NatText(0 - n) ELSE NatText(n))
    ELSE IF k = 1 /\ n = 0 THEN <<"4611686018427387904">>
    ELSE IF k = 1 /\ n = 1 THEN <<"4611686018427387905">>
    ELSE IF k = 2 /\ n = 0 - 1 THEN <<"9223372036854775807">>
    ELSE IF k = 2 /\ n = 0 THEN <<"9223372036854775808">>
    ELSE <<"?">>

\* format!("{}", i) of an i64.
format_i64(i) == IntText(i.k, i.n)

\* format!("{}", val) of an f64 that is no integer.
format_f64(val) ==
    IF val.f = "half" THEN NatText(val.n) \o <<".", "5">>
    ELSE IF val.f = "tiny" THEN <<"0.00000000000000001">>
    ELSE IntText(val.k, val.n)

\* Line 102: (val - val.trunc()).abs() < f64::EPSILON.
is_integer_value(val) == val.f \in {"0", "tiny"}

format_cell_always_float(val) == format_f64(val)

\* Lines 101-106: the text of a cell.
format_cell(val) ==
    IF is_integer_value(val) THEN format_i64(as_i64(val)) ELSE format_f64(val)

---------------------------------------------------------------------------
(* convert_biom_to_tsv (src/src/biom.rs).                                  *)
(* The BIOM file holds a JSON document: [kind |-> "garbage"] when it is no *)
(* JSON or has a field of another JSON type than struct Biom's, else its   *)
(* shape (JSON values), data (entries, each a sequence of JSON values),    *)
(* rows and columns (their ids).                                           *)

\* The most rows and the most columns of a BIOM document.
MaxDim == 2
\* The most entries of its data array.
MaxData == 2

BiomIn == <<"feature-table.biom">>
BiomOut == <<"asv-table.tsv">>

Doc(shape, data, rows, columns) ==
    [kind |-> "doc", shape |-> shape, data |-> data, rows |-> rows, columns |-> columns]
GarbageDoc == [kind |-> "garbage", shape |-> <<>>, data |-> <<>>, rows |-> <<>>,
               columns |-> <<>>]

\* Line 45: serde_json::from_reader into struct Biom; shape is a Vec<usize>.
biom_parses(doc) ==
    /\ doc.kind = "doc"
    /\ \A p \in 1..Len(doc.shape) : as_u64(doc.shape[p]) # <<>>

out_of_bounds_off_by_one(index, n) == index.k > 0 \/ index.n > n

\* Line 77: an index is out of bounds.
out_of_bounds(index, n) == index.k > 0 \/ index.n >= n

matrix_set_first_wins(matrix, r, c, value) ==
    IF matrix[r][c] = Zero THEN [matrix EXCEPT ![r][c] = value] ELSE matrix

\* Line 80: matrix[row_index][col_index] = value (r and c count from 1).
matrix_set(matrix, r, c, value) == [matrix EXCEPT ![r][c] = value]

tsv_created_keeping(f) ==
    [p \in DOMAIN f \cup {BiomOut} |->
        IF p = BiomOut /\ p \notin DOMAIN f THEN File("plain", <<>>) ELSE f[p]]

\* Lines 84-86: WriterBuilder::from_path creates the file, or truncates it.
tsv_created(f) ==
    [p \in DOMAIN f \cup {BiomOut} |->
        IF p = BiomOut THEN File("plain", <<>>) ELSE f[p]]

\* Lines 43-59: the document is read and its shape validated; the matrix is
\* all zeros.
BiomRead ==
    /\ biom.pc = "call"
    /\ LET doc == fs[BiomIn].lines
           n_rows == as_u64(doc.shape[1])[1].n
           n_cols == as_u64(doc.shape[2])[1].n
           fail(kind) == [biom EXCEPT !.pc = "returned", !.result = Err(kind)]
       IN  biom' =
             IF ~exists(BiomIn) THEN fail("NotFound")
             ELSE IF ~biom_parses(doc) THEN fail("Json")
             ELSE IF Len(doc.shape) # 2 THEN fail("Shape")
             ELSE IF as_u64(doc.shape[1])[1].k # 0 \/ as_u64(doc.shape[2])[1].k # 0
                     \/ n_rows # Len(doc.rows) \/ n_cols # Len(doc.columns)
             THEN fail("Mismatch")
             ELSE [biom EXCEPT !.pc = "data", !.doc = doc,
                               !.n_rows = n_rows, !.n_cols = n_cols,
                               !.matrix = [r \in 1..n_rows |-> [c \in 1..n_cols |-> Zero]],
                               !.k = 0, !.i = 0, !.buf = <<>>]
    /\ UNCHANGED <<fs, barcodes_file, run, barcode_lines, task, pb, log, reread,
                   manifest, merge>>

\* Lines 62-81: one entry of the data array.
BiomEntry ==
    /\ biom.pc = "data"
    /\ biom.k < Len(biom.doc.data)
    /\ LET entry == biom.doc.data[biom.k + 1]
           row_index == as_u64(entry[1])
           col_index == as_u64(entry[2])
           value == as_f64(entry[3])
           fail(kind) == [biom EXCEPT !.pc = "returned", !.result = Err(kind)]
       IN  biom' =
             IF Len(entry) # 3 THEN fail("Entry")
             ELSE IF row_index = <<>> THEN fail("RowIndex")
             ELSE IF col_index = <<>> THEN fail("ColIndex")
             ELSE IF value = <<>> THEN fail("Value")
             ELSE IF out_of_bounds(row_index[1], biom.n_rows)
                     \/ out_of_bounds(col_index[1], biom.n_cols)
             THEN fail("Bounds")
             ELSE [biom EXCEPT !.k = @ + 1,
                               !.matrix = matrix_set(@, row_index[1].n + 1,
                                                     col_index[1].n + 1, value[1])]
    /\ UNCHANGED <<fs, barcodes_file, run, barcode_lines, task, pb, log, reread,
                   manifest, merge>>

\* Lines 84-86: the output file is created once every entry is applied.
BiomCreate ==
    /\ biom.pc = "data"
    /\ biom.k = Len(biom.doc.data)
    /\ fs' = tsv_created(fs)
    /\ biom' = [biom EXCEPT !.pc = "header"]
    /\ UNCHANGED <<barcodes_file, run, barcode_lines, task, pb, log, reread,
                   manifest, merge>>

tsv_header_dotted(columns) == << <<"Feature.ID">> >> \o columns

\* Lines 89-93: the header record.
tsv_header(columns) == << <<"Feature ID">> >> \o columns

\* Lines 89-94: the header goes to the writer's buffer.
BiomHeader ==
    /\ biom.pc = "header"
    /\ biom' = [biom EXCEPT !.pc = "rows",
                  !.buf = Append(@, csv_write_record(tsv_header(biom.doc.columns)))]
    /\ UNCHANGED <<fs, barcodes_file, run, barcode_lines, task, pb, log, reread,
                   manifest, merge>>

\* Lines 97-109: the row of one feature goes to the writer's buffer.
BiomRow ==
    /\ biom.pc = "rows"
    /\ biom.i < biom.n_rows
    /\ LET i == biom.i + 1
           record == <<biom.doc.rows[i]>> \o
                     [c \in 1..biom.n_cols |-> format_cell(biom.matrix[i][c])]
       IN  biom' = [biom EXCEPT !.i = i, !.buf = Append(@, csv_write_record(record))]
    /\ UNCHANGED <<fs, barcodes_file, run, barcode_lines, task, pb, log, reread,
                   manifest, merge>>

\* Lines 110-112: the buffer is written to the file; Ok(()).
BiomFlush ==
    /\ biom.pc = "rows"
    /\ biom.i = biom.n_rows
    /\ fs' = [fs EXCEPT ![BiomOut].lines = @ \o biom.buf]
    /\ biom' = [biom EXCEPT !.pc = "returned", !.result = Ok(Unit)]
    /\ UNCHANGED <<barcodes_file, run, barcode_lines, task, pb, log, reread,
                   manifest, merge>>

\* Lines 94, 108, 110: a write to the output file fails (the `?` of
\* write_record or flush).  The function returns the error; the writer is
\* dropped, and of its buffer the file holds what the device took.
BiomWriteError ==
    /\ biom.pc \in {"header", "rows"}
    /\ \E m \in 0..Len(biom.buf) :
           fs' = [fs EXCEPT ![BiomOut].lines = @ \o SubSeq(biom.buf, 1, m)]
    /\ biom' = [biom EXCEPT !.pc = "returned", !.result = Err("Io")]
    /\ UNCHANGED <<barcodes_file, run, barcode_lines, task, pb, log, reread,
                   manifest, merge>>

\* The function is called again on the same input once it has succeeded;
\* first_out is what the first call left in the output file.
BiomAgain ==
    /\ biom.pc = "returned"
    /\ biom.result = Ok(Unit)
    /\ biom.call = 1
    /\ biom' = [biom EXCEPT !.pc = "call", !.call = 2, !.result = NoResult,
                            !.first_out = fs[BiomOut].lines]
    /\ UNCHANGED <<fs, barcodes_file, run, barcode_lines, task, pb, log, reread,
                   manifest, merge>>

\* The frame of convert_biom_to_tsv before its first call; old_out is what
\* the output file held then (<<>> when there was none).
NewBiom(old_out) ==
    [pc |-> "call", call |-> 1, result |-> NoResult, doc |-> GarbageDoc,
     n_rows |-> 0, n_cols |-> 0, matrix |-> <<>>, k |-> 0, i |-> 0, buf |-> <<>>,
     first_out |-> <<>>, old_out |-> old_out]

\* Row and column ids.
RowIds(n) == [i \in 1..n |-> <<"F", Digits[i + 1]>>]
ColIds(n) == [i \in 1..n |-> <<"S", Digits[i + 1]>>]

\* Indices and values of data entries.
Indices ==
    {JInt(0), JInt(1), JInt(MaxDim), JInt(0 - 1), JNum("float", 0, 1, "0"), JStr,
     JNum("int", 1, 0, "0"), JNum("float", 0, 0, "half")}
Values ==
    {JInt(3), JInt(0 - 1), JNum("float", 0, 2, "half"), JNum("float", 0, 0, "tiny"),
     JNum("int", 1, 0, "0"), JNum("int", 1, 1, "0"), JNum("int", 2, 0, "0"), JStr}

\* Data arrays: up to MaxData entries, one of them varying in one place (or
\* of two or four elements), the others one of two standard entries.
StdEntries == {<<JInt(0), JInt(0), JInt(3)>>,
               <<JInt(1), JInt(1), JNum("float", 0, 2, "half")>>}
ProbeEntries ==
    {<<r, JInt(0), JInt(3)>> : r \in Indices} \cup
    {<<JInt(0), c, JInt(3)>> : c \in Indices} \cup
    {<<JInt(0), JInt(0), v>> : v \in Values} \cup
    {<<JInt(1), JInt(1), v>> : v \in Values} \cup
    {<<JInt(0), JInt(0)>>, <<JInt(0), JInt(0), JInt(3), JInt(3)>>}
DataArrays ==
    {<<>>} \cup
    UNION { { [k \in 1..n |-> IF k = p THEN e ELSE fill[k]] :
                p \in 1..n, e \in ProbeEntries, fill \in [1..n -> StdEntries] } :
            n \in 1..MaxData }

\* Documents whose shape agrees with their rows and columns, with any data
\* array; among them one with a column id holding a tab, and one whose only
\* row has an empty id and no column.
SoundDocs ==
    {Doc(<<JInt(r), JInt(c)>>, d, RowIds(r), ColIds(c)) :
        r \in 0..MaxDim, c \in 0..MaxDim, d \in DataArrays} \cup
    {Doc(<<JInt(1), JInt(1)>>, <<e>>, RowIds(1), << <<"a", "\t", "b">> >>) :
        e \in StdEntries} \cup
    {Doc(<<JInt(1), JInt(0)>>, <<>>, << <<>> >>, <<>>)}

\* Documents of MaxDim rows and columns whose shape is wrong, and a file
\* that is no BIOM document.
BadShapes ==
    {<<JInt(MaxDim)>>, <<JInt(MaxDim), JInt(MaxDim), JInt(1)>>,
     <<JInt(MaxDim + 1), JInt(MaxDim)>>, <<JInt(MaxDim), JInt(MaxDim + 1)>>,
     <<JInt(MaxDim), JStr>>, <<JNum("float", 0, MaxDim, "0"), JInt(MaxDim)>>,
     <<JNum("int", 1, 0, "0"), JInt(MaxDim)>>}
UnsoundDocs ==
    {Doc(sh, d, RowIds(MaxDim), ColIds(MaxDim)) :
        sh \in BadShapes, d \in {<<>>} \cup {<<e>> : e \in StdEntries}} \cup
    {GarbageDoc}

OldTable == << <<"old">>, <<"old", "\t", "1">> >>

\* A call convert_biom_to_tsv(BiomIn, BiomOut): the input file holds a
\* document or is missing, the output file is absent or holds an old table.
InitBiom ==
    \E doc \in SoundDocs \cup UnsoundDocs, present \in BOOLEAN, old \in BOOLEAN :
        /\ present \/ doc = GarbageDoc
        /\ fs = (IF present
                 THEN BiomIn :> [enc |-> "json", lines |-> doc, finished |-> TRUE,
                                 creators |-> {}]
                 ELSE <<>>)
                @@ (IF old THEN BiomOut :> File("plain", OldTable) ELSE <<>>)
        /\ biom = NewBiom(IF old THEN OldTable ELSE <<>>)
        /\ barcodes_file = <<>>
        /\ run = [pc |-> "direct", result |-> NoResult]
        /\ barcode_lines = <<>>
        /\ task = <<>>
        /\ pb = [pos |-> 0, len |-> 0]
        /\ log = {}
        /\ reread = <<>>
        /\ manifest = Idle
        /\ merge = Idle

NextBiom ==
    \/ BiomRead
    \/ BiomEntry
    \/ BiomCreate
    \/ BiomHeader
    \/ BiomRow
    \/ BiomFlush
    \/ BiomWriteError
    \/ BiomAgain

SpecBiom == InitBiom /\ [][NextBiom]_vars

---------------------------------------------------------------------------
(* Claims about convert_biom_to_tsv.                                       *)

\* The document of the input file, and whether the input file is there.
BiomDoc == fs[BiomIn].lines
BiomGiven == exists(BiomIn)

\* A JSON value is the number n.
IsCount(v, n) == v.t = "num" /\ v.k = 0 /\ v.n = n /\ v.f = "0"

\* The index at place p of an entry is a number and at least n.
IndexBeyond(entry, p, n) ==
    /\ Len(entry) >= p
    /\ entry[p].t = "num"
    /\ (entry[p].k > 0 \/ (entry[p].k = 0 /\ entry[p].n >= n))

\* The element at place p of an entry is no number.
NonNumeric(entry, p) == Len(entry) >= p /\ entry[p].t # "num"

ShapeLengthWrong == Len(BiomDoc.shape) # 2
ShapeMismatch ==
    /\ Len(BiomDoc.shape) = 2
    /\ \/ ~IsCount(BiomDoc.shape[1], Len(BiomDoc.rows))
       \/ ~IsCount(BiomDoc.shape[2], Len(BiomDoc.columns))
EntryOutOfBounds ==
    \E k \in 1..Len(BiomDoc.data) :
        \/ IndexBeyond(BiomDoc.data[k], 1, Len(BiomDoc.rows))
        \/ IndexBeyond(BiomDoc.data[k], 2, Len(BiomDoc.columns))
EntryNonNumeric ==
    \E k \in 1..Len(BiomDoc.data), p \in 1..3 : NonNumeric(BiomDoc.data[k], p)

\* The output file is as it was before the first call.
OutputUntouched ==
    IF biom.old_out = <<>> THEN ~exists(BiomOut)
    ELSE exists(BiomOut) /\ fs[BiomOut].lines = biom.old_out

\* C12: when the shape array has not exactly two elements, or shape[0]
\* differs from the number of rows or shape[1] from the number of columns,
\* or a data entry has a row index >= the row count or a column index >=
\* the column count, or a data entry has a non-numeric index or value, the
\* call never creates the output file, so the file stays as it was, and the
\* call returns an error.
C12_InvalidDocumentFails ==
    (BiomGiven /\ (ShapeLengthWrong \/ ShapeMismatch \/ EntryOutOfBounds
                   \/ EntryNonNumeric))
    => /\ biom.pc \notin {"header", "rows"}
       /\ OutputUntouched
       /\ biom.pc = "returned" => biom.result.tag = "Err"

\* C12 witness: the call has returned the out-of-bounds error for the
\* second entry of a document whose shape is sound, after applying the
\* first, and the old output table is still in place.
C12_Witness ==
    /\ BiomGiven
    /\ ~ShapeLengthWrong /\ ~ShapeMismatch /\ ~EntryNonNumeric
    /\ EntryOutOfBounds
    /\ Len(BiomDoc.data) = 2
    /\ biom.pc = "returned"
    /\ biom.result = Err("Bounds")
    /\ biom.k = 1
    /\ biom.old_out # <<>>
    /\ OutputUntouched

\* The number of data entries applied to the matrix so far.
EntriesApplied == IF biom.pc = "data" THEN biom.k ELSE Len(biom.doc.data)

\* The entries among the first n whose coordinates are row r, column c
\* (counted from 0).
EntriesAt(r, c, n) ==
    {k \in 1..n : /\ IsCount(biom.doc.data[k][1], r)
                  /\ IsCount(biom.doc.data[k][2], c)}

Last(S) == CHOOSE k \in S : \A j \in S : j <= k

\* C13: while and after the data entries are applied, every cell (r,c) of
\* the dense matrix holds the value (as f64) of the last entry applied, in
\* document order, whose coordinates are (r,c), and 0 when no entry applied
\* has those coordinates; values of equal coordinates are not added.
C13_LastEntryWins ==
    biom.pc \in {"data", "header", "rows"} =>
        \A r \in 1..biom.n_rows, c \in 1..biom.n_cols :
            LET hits == EntriesAt(r - 1, c - 1, EntriesApplied)
            IN  biom.matrix[r][c] =
                    IF hits = {} THEN Zero
                    ELSE as_f64(biom.doc.data[Last(hits)][3])[1]

\* C13 witness: two entries with the coordinates (0,0) and the values 3 and
\* -1 have been applied, the cell holds -1 and a cell without entry holds 0.
C13_Witness ==
    /\ biom.pc = "rows"
    /\ biom.n_rows = 2 /\ biom.n_cols = 2
    /\ EntriesAt(0, 0, Len(biom.doc.data)) = {1, 2}
    /\ as_f64(biom.doc.data[1][3]) = <<Num(0, 3, "0")>>
    /\ biom.matrix[1][1] = Num(0, 0 - 1, "0")
    /\ biom.matrix[2][2] = Zero

\* The call has returned Ok(()).
BiomDone == biom.pc = "returned" /\ biom.result = Ok(Unit)

\* The records of the output file, as a csv reader with the tab delimiter
\* reads its lines.
OutputRecords ==
    [i \in 1..Len(fs[BiomOut].lines) |-> csv_read_record(fs[BiomOut].lines[i])]

\* C14: once the call has returned Ok, the output file holds the header
\* record "Feature ID" followed by the column ids in document order, then
\* one record for each row of the document, in document order: the row id
\* followed by the col_count cells of that row in column order.
C14_TableLayout ==
    BiomDone =>
        /\ Len(OutputRecords) = 1 + Len(BiomDoc.rows)
        /\ OutputRecords[1] = << <<"Feature ID">> >> \o BiomDoc.columns
        /\ \A i \in 1..Len(BiomDoc.rows) :
               /\ Len(OutputRecords[i + 1]) = 1 + Len(BiomDoc.columns)
               /\ OutputRecords[i + 1][1] = BiomDoc.rows[i]
               /\ \A c \in 1..Len(BiomDoc.columns) :
                      OutputRecords[i + 1][c + 1] = format_cell(biom.matrix[i][c])

\* C14 witness: the table of a document of two rows and two columns, with
\* an entry in row 1 and another in row 2, has been written.
C14_Witness ==
    /\ BiomDone
    /\ Len(BiomDoc.rows) = 2 /\ Len(BiomDoc.columns) = 2
    /\ Len(fs[BiomOut].lines) = 3
    /\ biom.matrix[1][1] # Zero /\ biom.matrix[2][2] # Zero
    /\ biom.matrix[1][2] = Zero

\* The value given in the document for the cell of row r and column c
\* (counted from 1): that of the last entry with these coordinates, else 0.
GivenValue(r, c) ==
    LET hits == EntriesAt(r - 1, c - 1, Len(BiomDoc.data))
    IN  IF hits = {} THEN JInt(0) ELSE BiomDoc.data[Last(hits)][3]

\* C15: once the call has returned Ok, every cell whose given value equals
\* its truncation is written as that integer in decimal digits, without a
\* decimal point, whatever its size, and every other cell in the default
\* decimal format of the value.
C15_CellRendering ==
    BiomDone =>
        \A r \in 1..Len(BiomDoc.rows), c \in 1..Len(BiomDoc.columns) :
            LET v == GivenValue(r, c)
            IN  OutputRecords[r + 1][c + 1] =
                    IF v.f = "0" THEN IntText(v.k, v.n)
                    ELSE format_f64(Num(v.k, v.n, v.f))

\* The lines of the table of a document: those of its header and of its
\* rows, each cell the text of the f64 of its given value.
TableOf(doc) ==
    <<csv_write_record(tsv_header(doc.columns))>> \o
    [r \in 1..Len(doc.rows) |->
        csv_write_record(<<doc.rows[r]>> \o
            [c \in 1..Len(doc.columns) |-> format_cell(as_f64(GivenValue(r, c))[1])])]

\* C16: whenever the call has returned Ok, the output file holds exactly
\* the lines of the table of the input document, whatever the file held
\* before; after a second call on the same input it holds, line for line
\* and byte for byte, what the first call left.
C16_SameOutputTwice ==
    BiomDone =>
        /\ fs[BiomOut].lines = TableOf(BiomDoc)
        /\ biom.call = 2 => fs[BiomOut].lines = biom.first_out

\* C16 witness: the second call on a document of two rows has returned Ok;
\* the output file held an old table before the first call.
C16_Witness ==
    /\ BiomDone
    /\ biom.call = 2
    /\ biom.old_out # <<>>
    /\ Len(BiomDoc.rows) = 2 /\ Len(BiomDoc.data) = 2
    /\ Len(biom.first_out) = 3

\* C17: whenever convert_biom_to_tsv has returned an error, the output file
\* is absent, or as it was before the call, or holds the whole table of the
\* document: never a truncated or partly written one.
C17_NoPartialOutput ==
    (biom.pc = "returned" /\ biom.result.tag = "Err") =>
        \/ ~exists(BiomOut)
        \/ OutputUntouched
        \/ fs[BiomOut].lines = TableOf(BiomDoc)

---------------------------------------------------------------------------
(* merge_asv_taxonomy (src/src/pipeline.rs; src/src/main.rs holds the same *)
(* function).                                                              *)

\* The most data rows of a table file.
MaxTable == 3

AsvTablePath == out_path(<<"asv_table/asv-table.tsv">>)
Pr2TaxPath == out_path(<<"asv_tax_dir/pr2_taxonomy.tsv">>)
MergedPath == out_path(<<"asv_count_tax.tsv">>)

is_skipped_empty_only(line, comment) == line = <<>>

\* The csv reader passes over empty lines and, when a comment byte is set,
\* over lines that begin with it.
is_skipped(line, comment) ==
    \/ line = <<>>
    \/ comment # "" /\ Head(line) = comment

RECURSIVE csv_records(_, _)
csv_records(lines, comment) ==
    IF lines = <<>> THEN <<>>
    ELSE (IF is_skipped(Head(lines), comment) THEN <<>>
          ELSE <<csv_read_record(Head(lines))>>)
         \o csv_records(Tail(lines), comment)

map_insert_keep_first(map, key, rec) ==
    [k \in DOMAIN map \cup {key} |-> IF k \in DOMAIN map THEN map[k] ELSE rec]

\* HashMap::insert: the record of a key replaces the one it had.
map_insert(map, key, rec) ==
    [k \in DOMAIN map \cup {key} |-> IF k = key THEN rec ELSE map[k]]

\* Lines 617-622 and 632-637: the map of the records, inserted in file
\* order under their first field.
RECURSIVE records_map(_, _)
records_map(records, map) ==
    IF records = <<>> THEN map
    ELSE records_map(Tail(records), map_insert(map, Head(records)[1], Head(records)))

\* Lines 609-622 and 625-637: a table file read with has_headers(true): the
\* first record read is the header, the others go to the map; a record of
\* another length than the header is the error UnequalLengths.
read_table(path, comment) ==
    IF ~exists(path) THEN [err |-> "NotFound", headers |-> <<>>, map |-> <<>>]
    ELSE LET records == csv_records(fs[path].lines, comment)
         IN  IF records = <<>> THEN [err |-> "", headers |-> <<>>, map |-> <<>>]
             ELSE IF \E i \in 1..Len(records) : Len(records[i]) # Len(records[1])
             THEN [err |-> "UnequalLengths", headers |-> <<>>, map |-> <<>>]
             ELSE [err |-> "", headers |-> Head(records),
                   map |-> records_map(Tail(records), <<>>)]

merged_header_unprefixed(asv_headers, pr2_headers) ==
    [i \in 1..Len(asv_headers) |-> IF i = 1 THEN <<"Feature.ID">> ELSE asv_headers[i]]
    \o (IF pr2_headers = <<>> THEN <<>> ELSE Tail(pr2_headers))

\* Lines 646-659: the merged header.
merged_header(asv_headers, pr2_headers) ==
    [i \in 1..Len(asv_headers) |-> IF i = 1 THEN <<"Feature.ID">> ELSE asv_headers[i]]
    \o (IF pr2_headers = <<>> THEN <<>>
        ELSE [i \in 1..(Len(pr2_headers) - 1) |-> <<"pr2_">> \o pr2_headers[i + 1]])

merged_record_pad_all(asv_record, feature_id, pr2_map, pr2_headers) ==
    asv_record \o
    (IF feature_id \in DOMAIN pr2_map THEN Tail(pr2_map[feature_id])
     ELSE [i \in 1..Len(pr2_headers) |-> <<>>])

\* Lines 664-672: the merged record of a feature.
merged_record(asv_record, feature_id, pr2_map, pr2_headers) ==
    asv_record \o
    (IF feature_id \in DOMAIN pr2_map THEN Tail(pr2_map[feature_id])
     ELSE [i \in 1..(Len(pr2_headers) - 1) |-> <<>>])

\* Lines 609-622: the ASV table is read ('#' starts a comment line).
MergeReadAsv ==
    /\ merge.pc = "call"
    /\ LET t == read_table(AsvTablePath, "#")
       IN  merge' = IF t.err # ""
                    THEN [merge EXCEPT !.pc = "returned", !.result = Err(t.err)]
                    ELSE [merge EXCEPT !.pc = "pr2", !.asv_headers = t.headers,
                                       !.asv_map = t.map]
    /\ UNCHANGED <<fs, barcodes_file, run, barcode_lines, task, pb, log, reread,
                   manifest, biom>>

\* Lines 625-637: the taxonomy table is read (no comment byte).
MergeReadPr2 ==
    /\ merge.pc = "pr2"
    /\ LET t == read_table(Pr2TaxPath, "")
       IN  merge' = IF t.err # ""
                    THEN [merge EXCEPT !.pc = "returned", !.result = Err(t.err)]
                    ELSE [merge EXCEPT !.pc = "create", !.pr2_headers = t.headers,
                                       !.pr2_map = t.map]
    /\ UNCHANGED <<fs, barcodes_file, run, barcode_lines, task, pb, log, reread,
                   manifest, biom>>

\* Lines 640-643: the merged file is created, or truncated.
MergeCreate ==
    /\ merge.pc = "create"
    /\ fs' = [p \in DOMAIN fs \cup {MergedPath} |->
                 IF p = MergedPath THEN File("plain", <<>>) ELSE fs[p]]
    /\ merge' = [merge EXCEPT !.pc = "header"]
    /\ UNCHANGED <<barcodes_file, run, barcode_lines, task, pb, log, reread,
                   manifest, biom>>

\* Lines 646-660: the merged header goes to the writer's buffer.
MergeHeader ==
    /\ merge.pc = "header"
    /\ merge' = [merge EXCEPT !.pc = "rows", !.todo = DOMAIN merge.asv_map,
                   !.buf = <<csv_write_record(merged_header(merge.asv_headers,
                                                            merge.pr2_headers))>>]
    /\ UNCHANGED <<fs, barcodes_file, run, barcode_lines, task, pb, log, reread,
                   manifest, biom>>

\* Lines 663-674: the merged record of the next feature of asv_map.iter(),
\* which yields the keys of the HashMap in an arbitrary order.
MergeRow ==
    /\ merge.pc = "rows"
    /\ \E feature_id \in merge.todo :
           merge' = [merge EXCEPT
               !.todo = @ \ {feature_id},
               !.buf = Append(@, csv_write_record(
                           merged_record(merge.asv_map[feature_id], feature_id,
                                         merge.pr2_map, merge.pr2_headers)))]
    /\ UNCHANGED <<fs, barcodes_file, run, barcode_lines, task, pb, log, reread,
                   manifest, biom>>

\* Lines 675-681: the buffer is written to the file; Ok(()).
MergeFlush ==
    /\ merge.pc = "rows"
    /\ merge.todo = {}
    /\ fs' = [fs EXCEPT ![MergedPath].lines = @ \o merge.buf]
    /\ merge' = [merge EXCEPT !.pc = "returned", !.result = Ok(Unit)]
    /\ UNCHANGED <<barcodes_file, run, barcode_lines, task, pb, log, reread,
                   manifest, biom>>

\* Lines 660, 673, 675: a write to the merged file fails; the function
\* returns the error, and of the writer's buffer the file holds what the
\* device took.
MergeWriteError ==
    /\ merge.pc \in {"header", "rows"}
    /\ \E m \in 0..Len(merge.buf) :
           fs' = [fs EXCEPT ![MergedPath].lines = @ \o SubSeq(merge.buf, 1, m)]
    /\ merge' = [merge EXCEPT !.pc = "returned", !.result = Err("Io")]
    /\ UNCHANGED <<barcodes_file, run, barcode_lines, task, pb, log, reread,
                   manifest, biom>>

\* Table files.  The ASV table begins with a header line, or with the two
\* lines a BIOM conversion to TSV begins with.
PlainHeader == << <<"Feature ID", "\t", "S1">> >>
BiomTsvHeader == << <<"#", " Constructed from biom file">>,
                    <<"#", "OTU ID", "\t", "S1">> >>
AsvRowMenu ==
    {<<"F", "1", "\t", "3">>, <<"F", "1", "\t", "5">>, <<"F", "2", "\t", "7">>,
     <<"#", "F", "9", "\t", "1">>, <<"\"", "#", "F", "8", "\"", "\t", "1">>}
AsvTables ==
    {h \o rows : h \in {PlainHeader, BiomTsvHeader},
                 rows \in ListsUpTo(AsvRowMenu, MaxTable)}
    \cup {PlainHeader \o << <<"F", "1", "\t", "3">>, <<"F", "2">> >>}
StdAsvTables ==
    {PlainHeader \o << <<"F", "1", "\t", "3">>, <<"F", "2", "\t", "7">> >>,
     PlainHeader \o << <<"F", "1", "\t", "3">>, <<"F", "1", "\t", "5">> >>,
     PlainHeader \o << <<"F", "1", "\t", "3">>, <<"#", "F", "9", "\t", "1">> >>}

Pr2Header == << <<"Feature ID", "\t", "Taxon", "\t", "Confidence">> >>
Pr2RowMenu ==
    {<<"F", "1", "\t", "tA", "\t", "0.9">>, <<"F", "1", "\t", "tB", "\t", "0.8">>,
     <<"F", "3", "\t", "tC", "\t", "0.7">>, <<"F", "2", "\t", "tD", "\t", "0.6">>,
     <<"#", "F", "9", "\t", "tE", "\t", "0.5">>}
Pr2Tables ==
    {Pr2Header \o rows : rows \in ListsUpTo(Pr2RowMenu, MaxTable)}
    \cup {Pr2Header \o << <<"F", "1", "\t", "tA">> >>, <<>>}
StdPr2Tables ==
    {Pr2Header,
     Pr2Header \o << <<"F", "1", "\t", "tA", "\t", "0.9">>,
                     <<"F", "3", "\t", "tC", "\t", "0.7">> >>,
     Pr2Header \o << <<"F", "1", "\t", "tA", "\t", "0.9">>,
                     <<"F", "1", "\t", "tB", "\t", "0.8">> >>}

\* A call merge_asv_taxonomy(): either table varies while the other is a
\* standard one; a table file may be missing.
InitMerge ==
    \E asv \in AsvTables \cup StdAsvTables, pr2 \in Pr2Tables \cup StdPr2Tables,
       missing \in {"none", "asv", "pr2"} :
        /\ asv \in StdAsvTables \/ pr2 \in StdPr2Tables
        /\ missing # "none" => (asv \in StdAsvTables /\ pr2 \in StdPr2Tables)
        /\ fs = (IF missing = "asv" THEN <<>> ELSE AsvTablePath :> File("plain", asv))
                @@ (IF missing = "pr2" THEN <<>> ELSE Pr2TaxPath :> File("plain", pr2))
        /\ merge = [pc |-> "call", result |-> NoResult, asv_headers |-> <<>>,
                    asv_map |-> <<>>, pr2_headers |-> <<>>, pr2_map |-> <<>>,
                    todo |-> {}, buf |-> <<>>]
        /\ barcodes_file = <<>>
        /\ run = [pc |-> "direct", result |-> NoResult]
        /\ barcode_lines = <<>>
        /\ task = <<>>
        /\ pb = [pos |-> 0, len |-> 0]
        /\ log = {}
        /\ reread = <<>>
        /\ manifest = Idle
        /\ biom = Idle

NextMerge ==
    \/ MergeReadAsv
    \/ MergeReadPr2
    \/ MergeCreate
    \/ MergeHeader
    \/ MergeRow
    \/ MergeFlush
    \/ MergeWriteError

SpecMerge == InitMerge /\ [][NextMerge]_vars

---------------------------------------------------------------------------
(* Claims about merge_asv_taxonomy.                                        *)

\* The call has returned Ok(()).
MergeDone == merge.pc = "returned" /\ merge.result = Ok(Unit)

\* The data rows of a table file: its lines after the first, as records.
DataRows(path) ==
    LET rest == IF fs[path].lines = <<>> THEN <<>> ELSE Tail(fs[path].lines)
    IN  [i \in 1..Len(rest) |-> csv_read_record(rest[i])]

\* The first-column keys of the data rows of a table file.
Keys(path) == {DataRows(path)[i][1] : i \in 1..Len(DataRows(path))}

\* The records of the merged file, and its data rows.
MergedRecords ==
    [i \in 1..Len(fs[MergedPath].lines) |-> csv_read_record(fs[MergedPath].lines[i])]
MergedRows == Tail(MergedRecords)

\* C19: once the call has returned Ok, the number of data rows of the
\* merged file is the number of distinct first-column keys among the data
\* rows of the primary file (the ASV table).
C19_RowCountIsPrimaryKeys ==
    MergeDone => Len(MergedRows) = Cardinality(Keys(AsvTablePath))

\* The last data row of a table file whose key is k.
LastRow(path, k) ==
    DataRows(path)[Last({i \in 1..Len(DataRows(path)) : DataRows(path)[i][1] = k})]

\* The number of columns of the header of the secondary file (the taxonomy
\* table).
SecondaryColumns ==
    IF fs[Pr2TaxPath].lines = <<>> THEN 0
    ELSE Len(csv_read_record(Head(fs[Pr2TaxPath].lines)))

\* The row a left join on the first column gives for the key k.
JoinedRow(k) ==
    LastRow(AsvTablePath, k) \o
    (IF k \in Keys(Pr2TaxPath) THEN Tail(LastRow(Pr2TaxPath, k))
     ELSE [i \in 1..(SecondaryColumns - 1) |-> <<>>])

\* C18: once the call has returned Ok, the merged file has for every key of
\* the data rows of the primary file exactly one row, made of the primary
\* row's cells followed by the cells of the secondary row of that key
\* without its key, or by (number of secondary header columns - 1) empty
\* strings when the secondary file has no row of that key; and it has no
\* row for any other key.
C18_LeftJoin ==
    MergeDone =>
        /\ \A k \in Keys(AsvTablePath) :
               /\ Cardinality({i \in 1..Len(MergedRows) : MergedRows[i][1] = k}) = 1
               /\ \E i \in 1..Len(MergedRows) : MergedRows[i] = JoinedRow(k)
        /\ \A i \in 1..Len(MergedRows) : MergedRows[i][1] \in Keys(AsvTablePath)

\* C20: once the call has returned Ok, every row of the merged file is made
\* of the cells of the last data row of the primary file with its key and,
\* when the secondary file has rows with that key, of the cells after the
\* key of the last of them: earlier rows of a key leave no trace, and cells
\* of rows with the same key are neither added nor concatenated.
C20_LastRowWins ==
    MergeDone =>
        \A i \in 1..Len(MergedRows) : MergedRows[i] = JoinedRow(MergedRows[i][1])

\* C20 witness: the primary file has the rows F1 3 and F1 5, the secondary
\* file the rows F1 tA 0.9 and F1 tB 0.8, and the merged file has the
\* single row F1 5 tB 0.8.
C20_Witness ==
    /\ MergeDone
    /\ DataRows(AsvTablePath) = << << <<"F", "1">>, <<"3">> >>, << <<"F", "1">>, <<"5">> >> >>
    /\ DataRows(Pr2TaxPath) = << << <<"F", "1">>, <<"tA">>, <<"0.9">> >>,
                                 << <<"F", "1">>, <<"tB">>, <<"0.8">> >> >>
    /\ MergedRows = << << <<"F", "1">>, <<"5">>, <<"tB">>, <<"0.8">> >> >>

\* The header of a table file as its reader takes it: the fields of the
\* first line that is not passed over (<<>> when there is none).
RECURSIVE FirstRead(_, _)
FirstRead(lines, comment) ==
    IF lines = <<>> THEN <<>>
    ELSE IF Head(lines) = <<>> \/ (comment # "" /\ Head(Head(lines)) = comment)
    THEN FirstRead(Tail(lines), comment)
    ELSE csv_read_record(Head(lines))

PrimaryHeader == FirstRead(fs[AsvTablePath].lines, "#")
SecondaryHeader == FirstRead(fs[Pr2TaxPath].lines, "")

C28_RowWidthMinusOne ==
    MergeDone =>
        \A i \in 1..Len(MergedRows) :
            /\ Len(MergedRows[i]) = Len(MergedRecords[1])
            /\ Len(MergedRows[i]) = Len(PrimaryHeader) + Len(SecondaryHeader) - 1

\* C28 amended: once the call has returned Ok, every data row of the merged
\* file has as many cells as the merged header; that number is the length
\* of the primary header plus the number of secondary header columns after
\* the first, which is 0, not -1, when the secondary header is empty.
C28_RowWidth ==
    MergeDone =>
        \A i \in 1..Len(MergedRows) :
            /\ Len(MergedRows[i]) = Len(MergedRecords[1])
            /\ Len(MergedRows[i]) =
                   Len(PrimaryHeader) + (IF SecondaryHeader = <<>> THEN 0
                                         ELSE Len(SecondaryHeader) - 1)

\* C28 witness: two data rows of two cells each have been written under a
\* header of two cells, the secondary file being empty.
C28_Witness ==
    /\ MergeDone
    /\ fs[Pr2TaxPath].lines = <<>>
    /\ Len(MergedRows) = 2
    /\ Len(MergedRecords[1]) = 2
    /\ \A i \in 1..2 : Len(MergedRows[i]) = 2

\* C28 second witness: a matched row and an unmatched row of four cells
\* each have been written under a header of four cells.
C28_WitnessMatched ==
    /\ MergeDone
    /\ Len(SecondaryHeader) = 3
    /\ Len(MergedRows) = 2
    /\ \E i, j \in 1..2 : /\ MergedRows[i][1] \in Keys(Pr2TaxPath)
                          /\ MergedRows[j][1] \notin Keys(Pr2TaxPath)
    /\ \A i \in 1..2 : Len(MergedRows[i]) = 4

\* Both tables have been read.
TablesRead ==
    \/ merge.pc \in {"create", "header", "rows"}
    \/ merge.pc = "returned" /\ merge.result \in {Ok(Unit), Err("Io")}

\* A line begins with '#'.
IsHashLine(line) == StartsWith(line, "#")
NotHashLine(line) == line # <<>> /\ ~IsHashLine(line)

\* The lines of the primary file that do not begin with '#', after the
\* first of them (the header): the rows left once comments are taken out.
PrimaryRowLines ==
    LET kept == SelectSeq(fs[AsvTablePath].lines, NotHashLine)
    IN  IF kept = <<>> THEN <<>> ELSE Tail(kept)
PrimaryRowKeys ==
    {csv_read_record(PrimaryRowLines[i])[1] : i \in 1..Len(PrimaryRowLines)}

\* The keys of the rows of the merged file.
MergedKeys == {MergedRows[i][1] : i \in 1..Len(MergedRows)}

\* C29 as stated: lines of the primary file that begin with '#' enter
\* neither the header nor the key mapping, the same lines of the secondary
\* file are rows of its mapping, and no row of the merged file has a
\* feature id that begins with '#'.
C29_NoHashIdInOutput ==
    /\ TablesRead =>
           /\ DOMAIN merge.asv_map = PrimaryRowKeys
           /\ DOMAIN merge.pr2_map = Keys(Pr2TaxPath)
    /\ MergeDone => \A k \in MergedKeys : ~IsHashLine(k)

\* C29 amended: lines of the primary file that begin with '#' enter neither
\* the header nor the key mapping, so the merged file has a row for exactly
\* the keys of the other primary rows (among which a feature id that begins
\* with '#' may still stand, when its line begins with a quote); the lines
\* of the secondary file that begin with '#' are rows of its mapping.
C29_HashLinesAreComments ==
    /\ TablesRead =>
           /\ merge.asv_headers = PrimaryHeader
           /\ DOMAIN merge.asv_map = PrimaryRowKeys
           /\ DOMAIN merge.pr2_map = Keys(Pr2TaxPath)
    /\ MergeDone => MergedKeys = PrimaryRowKeys

\* C29 witness: the primary file has the row line #F9 1 and the secondary
\* file a row line #F9 tE 0.5; the secondary mapping has the key #F9 and
\* the merged file, written, has one row, that of F1.
C29_Witness ==
    /\ MergeDone
    /\ \E i \in 2..Len(fs[AsvTablePath].lines) :
           fs[AsvTablePath].lines[i] = <<"#", "F", "9", "\t", "1">>
    /\ \E i \in 2..Len(fs[Pr2TaxPath].lines) : IsHashLine(fs[Pr2TaxPath].lines[i])
    /\ <<"#", "F", "9">> \in DOMAIN merge.pr2_map
    /\ MergedKeys = {<<"F", "1">>}

---------------------------------------------------------------------------
(* Claims that compare or combine the Demultiplexer and the manifest.      *)

\* The sample id generate_qiime_manifest derives from a line (lines
\* 158-166), and the one run_demultiplex_combined derives (lines 81-111).
ManifestSampleId(line) == manifest_fields(line)[1] \o <<"_">> \o manifest_fields(line)[6]
RunSampleId(line) == sample_outbase(row_fields(line)[1], row_fields(line)[6])

ManifestAccepts(line) == Len(manifest_fields(line)) = 6
RunAccepts(line) == Len(row_fields(line)) = 6

\* C23: for every row line of the barcodes file that the loop of
\* generate_qiime_manifest has gone through, generate_qiime_manifest accepts
\* the line if and only if run_demultiplex_combined accepts it, and for a
\* line both accept both derive the same sample id.
C23_SameTolerance ==
    manifest.pc = "lines" =>
    \A i \in 1..(manifest.i - 1) :
        /\ ManifestAccepts(TableRows[i]) <=> RunAccepts(TableRows[i])
        /\ (ManifestAccepts(TableRows[i]) /\ RunAccepts(TableRows[i]))
               => ManifestSampleId(TableRows[i]) = RunSampleId(TableRows[i])

\* C24: no call of demultiplex_fastq_files is left by a panic: for every
\* record pair, whatever the length of the forward quality, the slices of
\* lines 274-276 stay within the sequence and the quality.
C24_NeverPanics ==
    \A i \in DOMAIN task : task[i].pc # "panicked" /\ task[i].result # Panic

\* C25: between the iterations of the loop of demultiplex_fastq_files, at
\* its end, and once the function has returned (a stream exhausted, or a
\* record of either stream not parsed), as many records have been written
\* to the forward output as to the reverse output; once it has returned the
\* two files hold as many record lines.
C25_OutputsPaired ==
    \A i \in DOMAIN task :
        LET t == task[i]
        IN  /\ t.pc \in {"loop", "flush", "returned"} => Len(t.out1) = Len(t.out2)
            /\ (t.pc = "returned" /\ t.result # Err("NotFound")) =>
                   /\ Len(fs[outfile1(t.outbase)].lines) = 4 * Len(t.out1)
                   /\ Len(fs[outfile2(t.outbase)].lines) = 4 * Len(t.out1)

\* C25 witness: the call has returned an error for a forward line that
\* cannot be parsed, after writing one pair, and each output file holds the
\* four lines of one record.
C25_Witness ==
    \E i \in DOMAIN task :
        /\ run.pc = "direct"
        /\ task[i].pc = "returned"
        /\ task[i].result = Err("Other")
        /\ records_next(task[i].in1, task[i].pos1).status = "err"
        /\ Len(task[i].out1) = 1 /\ Len(task[i].out2) = 1
        /\ Len(fs[outfile1(task[i].outbase)].lines) = 4
        /\ Len(fs[outfile2(task[i].outbase)].lines) = 4

\* C22: a call of demultiplex_fastq_files that has created its output
\* files returns, with Ok or with an error, in a step that leaves both
\* files flushed (holding every record written) and their gzip streams
\* finished; and the progress counter is incremented for a row that called
\* it only after that return.
C22_FinalizedBeforeCompletion ==
    [][\A i \in DOMAIN task :
         LET t == task[i]
             u == task'[i]
         IN  /\ (t.pc \in {"loop", "flush"} /\ u.pc = "returned") =>
                    /\ fs'[outfile1(u.outbase)].finished
                    /\ fs'[outfile2(u.outbase)].finished
                    /\ fs'[outfile1(u.outbase)].lines = FastqLines(u.out1)
                    /\ fs'[outfile2(u.outbase)].lines = FastqLines(u.out2)
             /\ (t.pc \in {"demux", "create", "loop", "flush"} /\ u # t) => pb' = pb
             /\ (t.pc = "returned" /\ u.pc = "done") => pb'.pos = pb.pos + 1
      ]_vars

\* C22 witness: a row's task has reported completion after its call
\* returned an error for an unparsable forward file; the output files it
\* created, which no other row shares, are finished streams.
C22_Witness ==
    \E i \in DOMAIN task :
        /\ task[i].pc = "done"
        /\ task[i].result = Err("Other")
        /\ pb.pos >= 1
        /\ fs[outfile1(task[i].outbase)].creators = {i}
        /\ fs[outfile1(task[i].outbase)].finished
        /\ fs[outfile2(task[i].outbase)].finished

---------------------------------------------------------------------------
(* The pipeline on a directory that may hold the outputs of an earlier     *)
(* run: run_demultiplex_combined and then generate_qiime_manifest on the   *)
(* same barcodes file (src/src/main.rs), or one call of                    *)
(* demultiplex_fastq_files whose inputs may be missing.                    *)

\* Lines 819-828 of main.rs: the manifest is generated once the run has
\* returned Ok.
PipelineManifest ==
    /\ run.pc = "returned"
    /\ run.result.tag = "Ok"
    /\ manifest = Idle
    /\ manifest' = [pc |-> "call"]
    /\ UNCHANGED <<fs, barcodes_file, run, barcode_lines, task, pb, log, reread, biom, merge>>

\* The rows of the barcodes file: two rows of six fields, a row with a
\* leading blank, a row whose sixth field is empty, and a row of five fields.
PipelineRowMenu ==
    { RowLine(<<"s">>, <<"x">>, <<"A">>),
      RowLine(<<"t">>, <<"y">>, <<"A">>),
      <<" ">> \o RowLine(<<"t">>, <<"x">>, <<"A">>),
      RowLine(<<"s">>, <<"x">>, <<>>),
      JoinTab(<< <<"s">>, <<"x">>, <<"i">>, <<"G">>, <<"j">> >>) }

\* An output file left by an earlier run, and the paths that may hold one.
OldOutput == File("gz", FastqLines(<<RevRecord(9)>>))
OldOutputPaths == ManifestOutputs
OldOutputs(old) == IF old THEN [p \in OldOutputPaths |-> OldOutput] ELSE <<>>

\* The input files a direct call names, each present or not.
DirectInputs == SUBSET {TrimIn1, TrimIn2}

InitPipeline ==
    \/ \E rows \in ListsUpTo(PipelineRowMenu, MaxRows),
          kind \in {"none", "good"}, old \in BOOLEAN :
        /\ fs = (BarcodesPath :> File("plain", <<HeaderLine>> \o rows))
                @@ XFiles(BothGz) @@ YFiles(kind) @@ OldOutputs(old)
        /\ barcodes_file = BarcodesPath
        /\ run = [pc |-> "init", result |-> NoResult]
        /\ barcode_lines = <<>>
        /\ task = <<>>
        /\ pb = [pos |-> 0, len |-> 0]
        /\ log = {}
        /\ reread = <<>>
        /\ manifest = Idle
        /\ biom = Idle
        /\ merge = Idle
    \/ \E present \in DirectInputs, old \in BOOLEAN :
        /\ fs = [p \in present |-> XFiles(BothGz)[p]] @@ OldOutputs(old)
        /\ task = << [NewTask EXCEPT !.pc = "demux", !.in1 = TrimIn1, !.in2 = TrimIn2,
                                     !.adaptseq = <<"A">>, !.outbase = TrimOutbase] >>
        /\ barcodes_file = <<>>
        /\ run = [pc |-> "direct", result |-> NoResult]
        /\ barcode_lines = <<>>
        /\ pb = [pos |-> 0, len |-> 0]
        /\ log = {}
        /\ reread = <<>>
        /\ manifest = Idle
        /\ biom = Idle
        /\ merge = Idle

NextPipeline ==
    \/ RunStart
    \/ \E i \in TaskIds : TaskStart(i)
    \/ \E i \in TaskIds : DemuxOpen(i)
    \/ \E i \in TaskIds : DemuxCreate(i)
    \/ \E i \in TaskIds : LoopIter(i)
    \/ \E i \in TaskIds : DemuxFlush(i)
    \/ \E i \in TaskIds : TaskEnd(i)
    \/ RunFinish
    \/ PipelineManifest
    \/ ManifestStart
    \/ ManifestLine
    \/ ManifestReturn

SpecPipeline == InitPipeline /\ [][NextPipeline]_vars

---------------------------------------------------------------------------
(* Claims about the pipeline.                                              *)

\* In the claim's words: a row's input stem, whether an input of a role is
\* found, and whether the row is given no call of demultiplex_fastq_files.
RowStem(line) == row_fields(line)[2]
InputFound(stem, role) ==
    exists(InPath(stem, role, TRUE)) \/ exists(InPath(stem, role, FALSE))
RowSkipped(line) ==
    \/ ~RunAccepts(line)
    \/ ~InputFound(RowStem(line), 1)
    \/ ~InputFound(RowStem(line), 2)

\* The files a task has created.
FilesCreatedBy(f, i) == {p \in DOMAIN f : i \in f[p].creators}

C26_WitnessDirect ==
    /\ run.pc = "direct"
    /\ \E i \in DOMAIN task :
        /\ task[i].pc = "returned"
        /\ task[i].result = Err("NotFound")
        /\ exists(outfile1(task[i].outbase))
        /\ fs[outfile1(task[i].outbase)] = OldOutput
        /\ fs[outfile2(task[i].outbase)] = OldOutput

\* In the claim's words: the run has returned and every row of six fields
\* (as either function counts them) was given a call that returned Ok.
EveryTaskSucceeded ==
    /\ run.pc = "returned"
    /\ \A i \in DOMAIN task :
        (RunAccepts(barcode_lines[i]) \/ ManifestAccepts(barcode_lines[i])) =>
            task[i].result = Ok(Unit)

\* The first half of C27: once demultiplex_fastq_files has returned Ok both
\* of its output files exist.
SuccessLeavesOutputs ==
    \A i \in DOMAIN task :
        task[i].result = Ok(Unit) =>
            exists(outfile1(task[i].outbase)) /\ exists(outfile2(task[i].outbase))

\* C27, as claimed: once demultiplex_fastq_files has returned Ok both of its
\* output files exist, and generate_qiime_manifest, called after a run in
\* which every six-field row's task succeeded, finds both files of every row
\* it accepts, so that it returns Ok.
C27_ManifestFindsOutputs ==
    /\ SuccessLeavesOutputs
    /\ (EveryTaskSucceeded /\ manifest.pc = "returned") => manifest.result = Ok(Unit)

---------------------------------------------------------------------------
(* Further claims about convert_biom_to_tsv.                               *)

\* In the claim's words: an entry that has not exactly three elements, and
\* an index (place p of an entry) that is a negative or a fractional number.
IndexNegative(entry, p) ==
    /\ Len(entry) >= p
    /\ entry[p].t = "num"
    /\ (entry[p].k < 0 \/ (entry[p].k = 0 /\ entry[p].n < 0))
IndexFractional(entry, p) ==
    /\ Len(entry) >= p
    /\ entry[p].t = "num"
    /\ entry[p].f # "0"
EntryLengthWrong == \E k \in 1..Len(BiomDoc.data) : Len(BiomDoc.data[k]) # 3
EntryIndexNegative ==
    \E k \in 1..Len(BiomDoc.data), p \in 1..2 : IndexNegative(BiomDoc.data[k], p)
EntryIndexFractional ==
    \E k \in 1..Len(BiomDoc.data), p \in 1..2 : IndexFractional(BiomDoc.data[k], p)

\* The errors of the validation of the shape and of the data entries.
ValidationErrors ==
    {Err("Shape"), Err("Mismatch"), Err("Entry"), Err("RowIndex"), Err("ColIndex"),
     Err("Value"), Err("Bounds")}

\* C30: when a data entry has not exactly three elements, or a row or
\* column index that is negative or fractional, the call never creates the
\* output file and returns an error; and in every call the output file is
\* as it was until the shape and every data entry have been validated, and
\* still is once the call has returned one of the validation's errors.
C30_EntriesValidatedBeforeOutput ==
    /\ (BiomGiven /\ (EntryLengthWrong \/ EntryIndexNegative \/ EntryIndexFractional))
       => /\ biom.pc \notin {"header", "rows"}
          /\ OutputUntouched
          /\ biom.pc = "returned" => biom.result \in ValidationErrors
    /\ (biom.call = 1 /\ biom.pc \in {"call", "data"}) => OutputUntouched
    /\ (biom.pc = "returned" /\ biom.result \in ValidationErrors) => OutputUntouched
    /\ (biom.call = 1 /\ ~OutputUntouched) => biom.k = Len(biom.doc.data)

\* C30 witness: the call has returned an error for the fractional column
\* index 0.5 of the second entry, after applying the first, and the old
\* output table is still in place.
C30_Witness ==
    /\ BiomGiven
    /\ ~ShapeLengthWrong /\ ~ShapeMismatch
    /\ ~EntryLengthWrong /\ ~EntryIndexNegative
    /\ EntryIndexFractional
    /\ Len(BiomDoc.data) = 2
    /\ IndexFractional(BiomDoc.data[2], 2)
    /\ biom.pc = "returned"
    /\ biom.result = Err("ColIndex")
    /\ biom.k = 1
    /\ biom.old_out # <<>>
    /\ OutputUntouched

\* The call has returned an error for an entry of four elements.
C30_WitnessFour ==
    /\ BiomGiven
    /\ \E k \in 1..Len(BiomDoc.data) : Len(BiomDoc.data[k]) = 4
    /\ biom.pc = "returned"
    /\ biom.result = Err("Entry")
    /\ OutputUntouched

============================================================================
